---- MODULE Spec2Model ----
(***************************************************************************)
(* Event pipeline of smart-recipe-meal-planner: the RabbitMQ clients of    *)
(* the services and the handlers that consume ingredient.detected and      *)
(* meal_plan.created.                                                      *)
(*                                                                         *)
(* Python values: None is the string "None"; a dict is a record and a key  *)
(* that is absent from the dict is a field absent from the record; a list  *)
(* is a sequence.  A message body on the wire is a record whose field      *)
(* `wire` says what json.loads makes of it.                                *)
(***************************************************************************)
EXTENDS Integers, Sequences, FiniteSets, TLC

\* ---------------------------------------------------------------- bounds
MaxDeliveries == 2      \* deliveries handled in one behaviour
MaxIngredients == 2     \* length of an event's ingredients list
MaxRecipes == 1         \* recipes one lookup returns
MaxRetries == 3         \* largest max_retries a shared client is given
MaxAttempts == 2        \* attempts followed of a connect() that retries forever
MaxCalls == 2           \* client calls made in one behaviour
MaxMessages == 2        \* messages published to the consumed queue
MaxStops == 2           \* stop_consuming calls made in one behaviour
MaxSetups == 2          \* queue setups called after the startups
MaxRequests == 2         \* HTTP requests handled in one behaviour

ScanIds == {"s1", "s2"}
UserIds == {"u1"}
Tokens == {"t1"}
MealPlanIds == {"m1"}

\* ---------------------------------------------------------------- state
VARIABLES
    recipe_suggestions, \* meal-planning db.recipe_suggestions, in insert order
    shopping_lists,     \* shopping-list db["shopping_lists"], in insert order
    next_oid,           \* next ObjectId the store hands out
    broker_msgs,        \* messages the broker accepted, in order
    broker_exchanges,   \* exchanges declared on the broker
    mp_client,          \* meal-planning RabbitMQClient: connection, channel
    handled,            \* number of deliveries handled so far
    last,               \* what the last handler invocation did
    sh_client,          \* a shared RabbitMQClient with its configuration
    sc_client,          \* ingredient-scanner RabbitMQClient
    sl_client,          \* shopping-list RabbitMQClient
    calls_made,         \* number of client calls made so far
    call,               \* the client call that has just returned
    consumer,           \* meal-planning client as a consumer: flag, thread
    detected_queue,     \* queue detected_ingredients on the broker
    dispatch,           \* what the dispatcher has passed to the callback
    broker_queues,      \* queues declared on the broker
    broker_bindings,    \* bindings declared on the broker
    services,           \* how far each service's startup has come
    setup_call,         \* the last run of a service's queue setup
    scans,              \* ingredient-scanner db["scans"], in insert order
    response,           \* the HTTP request handled last and its response
    shared              \* the shared client's lock, consumer and publisher

pipelineVars == <<recipe_suggestions, shopping_lists, next_oid, handled, last>>
clientVars == <<sh_client, sc_client, sl_client, calls_made, call>>
consumerVars == <<consumer, detected_queue, dispatch>>
topologyVars == <<broker_queues, broker_bindings, services, setup_call>>
vars == <<recipe_suggestions, shopping_lists, next_oid, broker_msgs,
          broker_exchanges, mp_client, handled, last,
          sh_client, sc_client, sl_client, calls_made, call,
          consumer, detected_queue, dispatch,
          broker_queues, broker_bindings, services, setup_call,
          scans, response, shared>>

\* ---------------------------------------------------------------- python
\* `not x` for the str-or-None values the handlers test
Falsy(x) == x \in {"None", ""}

\* dict.get(key) / dict.get(key, default)
Get(d, key, default) == IF key \in DOMAIN d THEN d[key] ELSE default

\* str(ObjectId)
StrOid(n) == "oid" \o ToString(n)

\* fields whose values can be ones json cannot encode: an ObjectId in _id,
\* a datetime ("datetime", against the str "isoformat") in the others
NonJsonFields == {"created_at", "updated_at", "_id"}

\* json.dumps(message): raises TypeError on a value that is not JSON
json_dumps(message) ==
    IF \E k \in DOMAIN message \cap NonJsonFields :
          k = "_id" \/ message[k] = "datetime"
    THEN [raised |-> TRUE, body |-> [wire |-> "garbage"]]
    ELSE [raised |-> FALSE, body |-> [wire |-> "json_dict", val |-> message]]

\* json.loads(body): raises on text that is not JSON
json_loads(body) ==
    IF body.wire = "garbage"
    THEN [raised |-> TRUE, isdict |-> FALSE, val |-> [x |-> "None"]]
    ELSE IF body.wire = "json_dict"
    THEN [raised |-> FALSE, isdict |-> TRUE, val |-> body.val]
    ELSE [raised |-> FALSE, isdict |-> FALSE, val |-> [x |-> "None"]]

\* ------------------------------------------------- broker client library
\* A connection or channel attribute is "None" (never set), "open" or
\* "closed" (an object whose link is gone).  The library calls signal every
\* failure by raising; the inputs below are what the network does to a call.
ConnectOutcomes == {"ok", "conn_fail", "chan_fail"}
LinkOutcomes == {"ok", "error"}

NewClient == [connection |-> "None", channel |-> "None"]

\* shared RabbitMQClient(url, exchange, queue, routing_key, max_retries,
\* retry_delay)
ShClient(max_retries, retry_delay, exchange) ==
    [connection |-> "None", channel |-> "None",
     max_retries |-> max_retries, retry_delay |-> retry_delay,
     exchange |-> exchange, queue |-> "suggestions",
     routing_key |-> "recipe.suggestion"]

\* shopping-list RabbitMQClient(url)
SlClient ==
    [connection |-> "None", channel |-> "None",
     should_reconnect |-> TRUE, reconnect_delay |-> 5]

\* no client call is in progress or has just returned
NoCall ==
    [op |-> "none", client |-> "none", before |-> NewClient,
     exchange |-> "none", message |-> [x |-> "None"], outs |-> <<>>,
     link |-> "ok", ret |-> "none", log |-> <<>>, sent |-> <<>>]

\* The shared client right after connect(): nobody holds self._lock, no
\* consumer thread was started, _consume_messages is not being run,
\* _stop_event is clear and no publish_message call is under way.
NoShared ==
    [lock |-> "free", thread |-> "none", loop |-> "none", polls |-> 0,
     stop_event |-> FALSE, stopping |-> FALSE, stops |-> 0,
     publish |-> "idle", published |-> 0]

\* no HTTP request has been handled
NoResponse ==
    [handler |-> "none", status |-> 0, inserted |-> FALSE,
     doc |-> [x |-> "None"], before |-> NewClient,
     env |-> [db_ok |-> TRUE, conn |-> "ok", link |-> "ok"],
     pub_ret |-> "none", sent |-> <<>>, skipped |-> FALSE, n |-> 0]

\* channel.basic_publish / exchange.publish: raises when the channel is not
\* open, the exchange does not exist or the broker or link fails
basic_publish_raises(c, exchanges, exchange_name, link) ==
    \/ c.channel # "open"
    \/ exchange_name \notin exchanges
    \/ link = "error"

\* ------------------------------------- meal-planning RabbitMQClient (pika)
\* connect(): one attempt; every exception is caught and turned into False.
\* A connection whose channel() call fails stays assigned to self.connection.
mp_connect(c, o) ==
    CASE o = "ok" ->
           [c |-> [connection |-> "open", channel |-> "open"],
            ret |-> "True", log |-> <<[ev |-> "attempt", secs |-> 0]>>]
      [] o = "conn_fail" ->
           [c |-> c, ret |-> "False",
            log |-> <<[ev |-> "attempt", secs |-> 0]>>]
      [] o = "chan_fail" ->
           [c |-> [c EXCEPT !.connection = "open"],
            ret |-> "False", log |-> <<[ev |-> "attempt", secs |-> 0]>>]

\* close(): closes the channel and the connection that are open; the
\* attributes keep the closed objects, they are not reset to None
mp_close(c) ==
    [connection |-> IF c.connection = "open" THEN "closed" ELSE c.connection,
     channel |-> IF c.channel = "open" THEN "closed" ELSE c.channel]

\* the try block of publish_message: json.dumps, then basic_publish
mp_publish_try(c, exchanges, exchange_name, routing_key, message, link) ==
    LET d == json_dumps(message) IN
    IF d.raised \/ basic_publish_raises(c, exchanges, exchange_name, link)
    THEN [c |-> c, ret |-> "False", sent |-> <<>>]
    ELSE [c |-> c, ret |-> "True",
          sent |-> << [exchange |-> exchange_name,
                       routing_key |-> routing_key, body |-> d.body] >>]

\* publish_message(exchange_name, routing_key, message) -> bool
\* sent is what reaches the broker; ret is "True", "False" or "raise"
mp_publish_message_DumpsOutsideTry(c, exchanges, exchange_name, routing_key, message, o, link) ==
    LET r == IF c.channel = "None" THEN mp_connect(c, o)
             ELSE [c |-> c, ret |-> "True"]
    IN  IF r.ret # "True" THEN [c |-> r.c, ret |-> "False", sent |-> <<>>]
        ELSE IF json_dumps(message).raised
        THEN [c |-> r.c, ret |-> "raise", sent |-> <<>>]
        ELSE mp_publish_try(r.c, exchanges, exchange_name, routing_key,
                            message, link)

mp_publish_message(c, exchanges, exchange_name, routing_key, message, o, link) ==
    IF c.channel = "None"
    THEN LET r == mp_connect(c, o) IN
         IF r.ret # "True"
         THEN [c |-> r.c, ret |-> r.ret, sent |-> <<>>]
         ELSE mp_publish_try(r.c, exchanges, exchange_name, routing_key,
                             message, link)
    ELSE mp_publish_try(c, exchanges, exchange_name, routing_key, message, link)

\* --------------------------------------------- shared RabbitMQClient (pika)
\* what one connection attempt does to the client's attributes
AfterAttempt(c, o) ==
    CASE o = "ok" -> [c EXCEPT !.connection = "open", !.channel = "open"]
      [] o = "conn_fail" -> c
      [] o = "chan_fail" -> [c EXCEPT !.connection = "open"]

\* _connect_sync, `if attempt < self.max_retries - 1:` sleep and go on,
\* else return False
RetryAfterFailure_OffByOne(attempt, max_retries) == attempt < max_retries

RetryAfterFailure(attempt, max_retries) == attempt < max_retries - 1

\* _connect_sync: `for attempt in range(self.max_retries)`, attempts made so
\* far in log.  outs[k] is what the network does to attempt k.  A loop that
\* ends without a return statement returns None.
RECURSIVE connect_sync_from(_, _, _, _)
connect_sync_from(c, attempt, outs, log) ==
    IF attempt >= c.max_retries
    THEN [c |-> c, ret |-> "None", log |-> log]
    ELSE LET tried == Append(log, [ev |-> "attempt", secs |-> 0])
             c1 == AfterAttempt(c, outs[attempt + 1])
         IN  IF outs[attempt + 1] = "ok"
             THEN [c |-> c1, ret |-> "True", log |-> tried]
             ELSE IF RetryAfterFailure(attempt, c.max_retries)
             THEN connect_sync_from(c1, attempt + 1, outs,
                      Append(tried, [ev |-> "sleep", secs |-> c.retry_delay]))
             ELSE [c |-> c1, ret |-> "False", log |-> tried]

\* connect() runs _connect_sync in the executor and returns its result
sh_connect(c, outs) == connect_sync_from(c, 0, outs, <<>>)

\* publish_message(message): the whole body is one try block under the
\* lock; a failed connect raises inside it; self.exchange and
\* self.routing_key are the configured ones.
sh_publish_message(c, exchanges, message, outs, link) ==
    LET r == IF c.channel = "None" THEN sh_connect(c, outs)
             ELSE [c |-> c, ret |-> "True", log |-> <<>>]
        d == json_dumps(message)
    IN  IF r.ret # "True"
        THEN [c |-> r.c, ret |-> "False", sent |-> <<>>, log |-> r.log]
        ELSE IF d.raised \/ basic_publish_raises(r.c, exchanges, c.exchange, link)
        THEN [c |-> r.c, ret |-> "False", sent |-> <<>>, log |-> r.log]
        ELSE [c |-> r.c, ret |-> "True", log |-> r.log,
              sent |-> << [exchange |-> c.exchange,
                           routing_key |-> c.routing_key, body |-> d.body] >>]

\* --------------------------------- ingredient-scanner RabbitMQClient (aio)
\* connect(): one attempt, every exception caught and turned into False
sc_connect(c, o) ==
    [c |-> AfterAttempt(c, o),
     ret |-> IF o = "ok" THEN "True" ELSE "False",
     log |-> <<[ev |-> "attempt", secs |-> 0]>>]

\* publish_message(exchange_name, routing_key, message): connect when there
\* is no channel; json.dumps, get_exchange and publish in one try block
sc_publish_message(c, exchanges, exchange_name, routing_key, message, o, link) ==
    LET r == IF c.channel = "None" THEN sc_connect(c, o)
             ELSE [c |-> c, ret |-> "True", log |-> <<>>]
        d == json_dumps(message)
    IN  IF r.ret # "True"
        THEN [c |-> r.c, ret |-> "False", sent |-> <<>>, log |-> r.log]
        ELSE IF d.raised \/ basic_publish_raises(r.c, exchanges, exchange_name, link)
        THEN [c |-> r.c, ret |-> "False", sent |-> <<>>, log |-> r.log]
        ELSE [c |-> r.c, ret |-> "True", log |-> r.log,
              sent |-> << [exchange |-> exchange_name,
                           routing_key |-> routing_key, body |-> d.body] >>]

\* -------------------------------------- shopping-list RabbitMQClient (aio)
\* connect(): `while self.should_reconnect:` attempt, and after a failure
\* sleep reconnect_delay and go round again.  k attempts have been made;
\* should_reconnect is cleared (by shutdown) once cleared_after attempts were
\* made.  "blocked" is a call that is still retrying after Len(outs)
\* attempts.  The consumer a successful reconnect resubscribes does not
\* change what connect() returns.
RECURSIVE sl_connect_from(_, _, _, _, _)
sl_connect_from(c, k, outs, cleared_after, log) ==
    IF cleared_after <= k
    THEN [c |-> [c EXCEPT !.should_reconnect = FALSE],
          ret |-> "False", log |-> log]
    ELSE IF k >= Len(outs)
    THEN [c |-> c, ret |-> "blocked", log |-> log]
    ELSE LET tried == Append(log, [ev |-> "attempt", secs |-> 0])
             c1 == AfterAttempt(c, outs[k + 1])
         IN  IF outs[k + 1] = "ok"
             THEN [c |-> c1, ret |-> "True", log |-> tried]
             ELSE sl_connect_from(c1, k + 1, outs, cleared_after,
                      Append(tried, [ev |-> "sleep", secs |-> c.reconnect_delay]))

sl_connect(c, outs, cleared_after) ==
    sl_connect_from(c, 0, outs,
                    IF c.should_reconnect THEN cleared_after ELSE 0, <<>>)

\* ---------------------------------------------------------------- topology
\* The declarations a service's setup makes, in the order it makes them.
Ex(name) == [op |-> "exchange", name |-> name]
Qu(name) == [op |-> "queue", name |-> name]
Bi(queue_name, exchange_name, routing_key) ==
    [op |-> "bind", queue |-> queue_name, exchange |-> exchange_name,
     routing_key |-> routing_key]

setup_meal_planning_queues ==
    << Ex("ingredients"), Ex("meal_plans"),
       Qu("detected_ingredients"), Qu("meal_planning_requests"),
       Qu("meal_plans_created"),
       Bi("detected_ingredients", "ingredients", "ingredient.detected"),
       Bi("meal_planning_requests", "ingredients", "ingredient.planning"),
       Bi("meal_plans_created", "meal_plans", "meal_plan.created") >>

setup_ingredient_scanner_queues ==
    << Ex("ingredients"),
       Qu("detected_ingredients"), Qu("meal_planning_requests"),
       Bi("detected_ingredients", "ingredients", "ingredient.detected"),
       Bi("meal_planning_requests", "ingredients", "ingredient.planning") >>

setup_shopping_list_queues ==
    << Ex("shopping_lists"), Ex("meal_plans"),
       Qu("shopping_lists_created"), Qu("shopping_lists_updated"),
       Qu("shopping_lists_deleted"), Qu("meal_plans_created"),
       Bi("shopping_lists_created", "shopping_lists", "created"),
       Bi("shopping_lists_updated", "shopping_lists", "updated"),
       Bi("shopping_lists_deleted", "shopping_lists", "deleted"),
       Bi("meal_plans_created", "meal_plans", "created") >>

ServiceNames == {"meal_planning", "ingredient_scanner", "shopping_list"}

SetupOf(service) ==
    CASE service = "meal_planning" -> setup_meal_planning_queues
      [] service = "ingredient_scanner" -> setup_ingredient_scanner_queues
      [] service = "shopping_list" -> setup_shopping_list_queues

AllDeclarations ==
    setup_meal_planning_queues \o setup_ingredient_scanner_queues
    \o setup_shopping_list_queues

\* the exchanges, queues and bindings a list of declarations names
ExchangesOf(decls) ==
    {decls[i].name : i \in {j \in 1..Len(decls) : decls[j].op = "exchange"}}
QueuesOf(decls) ==
    {decls[i].name : i \in {j \in 1..Len(decls) : decls[j].op = "queue"}}
BindingsOf(decls) ==
    {[queue |-> decls[i].queue, exchange |-> decls[i].exchange,
      routing_key |-> decls[i].routing_key] :
        i \in {j \in 1..Len(decls) : decls[j].op = "bind"}}

\* every service has completed its startup
AllServing == [s \in ServiceNames |-> "serving"]

\* no queue setup has run
NoSetup == [service |-> "none", by |-> "none", raised |-> FALSE,
            ran |-> FALSE, fail_at |-> 0, repeat |-> FALSE, n |-> 0]

\* the broker's topology as one value
BrokerOf(exchanges, queues, bindings) ==
    [exchanges |-> exchanges, queues |-> queues, bindings |-> bindings]

\* one declaration on an open channel.  exchange_declare and queue_declare
\* of an entity that exists with the same arguments (every declaration of
\* the services is durable, every exchange a topic exchange) leave it as it
\* is; queue_bind of an existing binding likewise; binding a queue or an
\* exchange that does not exist raises.
declare_FailsWhenPresent(b, d) ==
    CASE d.op = "exchange" ->
           [b |-> [b EXCEPT !.exchanges = @ \cup {d.name}],
            raised |-> d.name \in b.exchanges]
      [] d.op = "queue" ->
           [b |-> [b EXCEPT !.queues = @ \cup {d.name}],
            raised |-> d.name \in b.queues]
      [] d.op = "bind" ->
           LET bi == [queue |-> d.queue, exchange |-> d.exchange,
                      routing_key |-> d.routing_key]
           IN  IF /\ d.queue \in b.queues
                  /\ d.exchange \in b.exchanges
                  /\ bi \notin b.bindings
               THEN [b |-> [b EXCEPT !.bindings = @ \cup {bi}],
                     raised |-> FALSE]
               ELSE [b |-> b, raised |-> TRUE]

\* channel.exchange_declare / queue_declare / queue_bind
declare(b, d) ==
    CASE d.op = "exchange" ->
           [b |-> [b EXCEPT !.exchanges = @ \cup {d.name}], raised |-> FALSE]
      [] d.op = "queue" ->
           [b |-> [b EXCEPT !.queues = @ \cup {d.name}], raised |-> FALSE]
      [] d.op = "bind" ->
           IF d.queue \in b.queues /\ d.exchange \in b.exchanges
           THEN [b |-> [b EXCEPT !.bindings = @ \cup
                          {[queue |-> d.queue, exchange |-> d.exchange,
                            routing_key |-> d.routing_key]}],
                 raised |-> FALSE]
           ELSE [b |-> b, raised |-> TRUE]

\* the declarations of a setup from the i-th on; the fail_at-th one meets a
\* broker or link error and raises out of the setup (fail_at = 0: none)
RECURSIVE run_declarations(_, _, _, _)
run_declarations(decls, i, b, fail_at) ==
    IF i > Len(decls) THEN [b |-> b, raised |-> FALSE]
    ELSE IF i = fail_at THEN [b |-> b, raised |-> TRUE]
    ELSE LET r == declare(b, decls[i])
         IN  IF r.raised THEN r
             ELSE run_declarations(decls, i + 1, r.b, fail_at)

\* a setup_*_queues call on client c.  Every declare_* begins with
\* `if not self.channel: if not self.connect(): return`: without a channel
\* and with the broker out of reach each of them returns quietly and the
\* setup declares nothing and raises nothing.  On a closed channel the
\* first declaration raises.
run_setup(c, o, decls, b, fail_at) ==
    LET c1 == IF c.channel = "None" THEN AfterAttempt(c, o) ELSE c
    IN  IF c1.channel = "None"
        THEN [c |-> c1, b |-> b, raised |-> FALSE]
        ELSE IF c1.channel = "closed"
        THEN [c |-> c1, b |-> b, raised |-> TRUE]
        ELSE LET r == run_declarations(decls, 1, b, fail_at)
             IN  [c |-> c1, b |-> r.b, raised |-> r.raised]

\* --------------------------------------------------------------- consumer
\* The meal-planning client before start_consuming.  channel and
\* subscribed: the client's channel and whether the broker has a consumer
\* of that channel on the queue; thread: where consume_thread is; stop:
\* where a stop_consuming call is.
NoConsumer(auto_ack) ==
    [channel |-> "None", subscribed |-> FALSE, auto_ack |-> auto_ack,
     consuming |-> FALSE, thread |-> "none", stop |-> "idle",
     stops |-> 0, waited |-> 0, fresh |-> FALSE]

EmptyQueue == [ready |-> <<>>, unacked |-> {}, acked |-> {}, published |-> 0]

NoDispatch ==
    [passed |-> <<>>, at_stop |-> -1, lost |-> FALSE, raised |-> FALSE]

\* ------------------------------------------- meal-planning service handler
\* What the recipe service answers to GET /recipes: 200 carries the recipe
\* list, 401 and 500 make raise_for_status raise.
RecipeLists == {[i \in 1..n |-> "r" \o ToString(i)] : n \in 0..MaxRecipes}
Responses ==
    {[status |-> 200, recipes |-> r] : r \in RecipeLists}
    \cup {[status |-> st, recipes |-> <<>>] : st \in {401, 500}}

\* fetch_recipes(ingredients=..., token=...): the list goes into the query
\* as it is; a 401 with a token is retried once without the token; every
\* other failure yields [].  calls is the sequence of lookups made.
fetch_recipes(ingredients, token, resp1, resp2) ==
    LET call1 == [ingredients |-> ingredients, token |-> token]
        call2 == [ingredients |-> ingredients, token |-> "None"]
    IN  IF resp1.status = 200
        THEN [recipes |-> resp1.recipes, calls |-> <<call1>>]
        ELSE IF resp1.status = 401 /\ ~Falsy(token)
        THEN [recipes |-> IF resp2.status = 200 THEN resp2.recipes ELSE <<>>,
              calls |-> <<call1, call2>>]
        ELSE [recipes |-> <<>>, calls |-> <<call1>>]

\* insert_one(doc): the store assigns _id and appends, or raises
insert_one(docs, oid, doc, db_ok) ==
    IF db_ok
    THEN [raised |-> FALSE, docs |-> Append(docs, doc @@ [_id |-> oid]),
          oid |-> oid + 1, inserted_id |-> oid]
    ELSE [raised |-> TRUE, docs |-> docs, oid |-> oid, inserted_id |-> 0]

\* What one handler invocation did; kept in `last`.
NoRun ==
    [handler |-> "none", body |-> [wire |-> "garbage"],
     env |-> [resp1 |-> [status |-> 500, recipes |-> <<>>],
              resp2 |-> [status |-> 500, recipes |-> <<>>],
              db_ok |-> TRUE, conn |-> "ok", link |-> "ok"],
     calls |-> <<>>, insert_attempted |-> FALSE, inserted |-> FALSE,
     inserted_id |-> 0, pub_ret |-> "none", sent |-> <<>>,
     escaped |-> FALSE, plan |-> [status |-> 404, items |-> <<>>]]

\* a handler invocation that returned before touching store or broker
Dropped(st) ==
    [docs |-> st.docs, oid |-> st.oid, c |-> st.c,
     calls |-> <<>>, insert_attempted |-> FALSE, inserted |-> FALSE,
     inserted_id |-> 0, pub_ret |-> "none", sent |-> <<>>,
     escaped |-> FALSE]

\* process_ingredients_async, `if not recipes:` branch: the attempt is
\* stored with an error marker; a failing insert is logged; no publish.
store_empty_suggestion_Discards(user_id, scan_id, ingredient_names, st, env) ==
    Dropped(st)

store_empty_suggestion(user_id, scan_id, ingredient_names, st, env) ==
    LET suggestion == [user_id |-> user_id, scan_id |-> scan_id,
                       ingredients |-> ingredient_names,
                       suggested_recipes |-> <<>>,
                       error |-> "No recipes found for the provided ingredients"]
        ins == insert_one(st.docs, st.oid, suggestion, env.db_ok)
    IN  [docs |-> ins.docs, oid |-> ins.oid, c |-> st.c,
         calls |-> <<>>, insert_attempted |-> TRUE, inserted |-> ~ins.raised,
         inserted_id |-> ins.inserted_id, pub_ret |-> "none", sent |-> <<>>,
         escaped |-> FALSE]

\* the recipe.suggestion notification built after the insert
suggestion_message(user_id, scan_id, suggestion_id, ingredient_names, recipes) ==
    [user_id |-> user_id, scan_id |-> scan_id,
     suggestion_id |-> suggestion_id,
     ingredient_count |-> Len(ingredient_names),
     recipe_count |-> Len(recipes),
     timestamp |-> "isoformat"]

\* process_ingredients_async, recipes found: insert, return on a failing
\* insert, otherwise publish recipe.suggestion on exchange meal_plans.
store_and_notify_PublishesAfterFailedInsert(user_id, scan_id, ingredient_names, recipes, st, env) ==
    LET suggestion == [user_id |-> user_id, scan_id |-> scan_id,
                       ingredients |-> ingredient_names,
                       suggested_recipes |-> recipes]
        ins == insert_one(st.docs, st.oid, suggestion, env.db_ok)
        message == suggestion_message(user_id, scan_id, StrOid(st.oid),
                                      ingredient_names, recipes)
        pub == mp_publish_message(st.c, st.exchanges, "meal_plans",
                                  "recipe.suggestion", message, env.conn, env.link)
    IN  [docs |-> ins.docs, oid |-> ins.oid, c |-> pub.c,
         calls |-> <<>>, insert_attempted |-> TRUE, inserted |-> ~ins.raised,
         inserted_id |-> ins.inserted_id, pub_ret |-> pub.ret,
         sent |-> pub.sent, escaped |-> FALSE]

store_and_notify(user_id, scan_id, ingredient_names, recipes, st, env) ==
    LET suggestion == [user_id |-> user_id, scan_id |-> scan_id,
                       ingredients |-> ingredient_names,
                       suggested_recipes |-> recipes]
        ins == insert_one(st.docs, st.oid, suggestion, env.db_ok)
        suggestion_id == StrOid(ins.inserted_id)
        message == suggestion_message(user_id, scan_id, suggestion_id,
                                      ingredient_names, recipes)
        pub == mp_publish_message(st.c, st.exchanges, "meal_plans",
                                  "recipe.suggestion", message, env.conn, env.link)
    IN  IF ins.raised
        THEN [docs |-> st.docs, oid |-> st.oid, c |-> st.c,
              calls |-> <<>>, insert_attempted |-> TRUE, inserted |-> FALSE,
              inserted_id |-> 0, pub_ret |-> "none", sent |-> <<>>,
              escaped |-> FALSE]
        ELSE [docs |-> ins.docs, oid |-> ins.oid, c |-> pub.c,
              calls |-> <<>>, insert_attempted |-> TRUE, inserted |-> TRUE,
              inserted_id |-> ins.inserted_id, pub_ret |-> pub.ret,
              sent |-> pub.sent, escaped |-> FALSE]

\* process_ingredients_async(user_id, scan_id, ingredient_names, token)
process_ingredients_async(user_id, scan_id, ingredient_names, token, st, env) ==
    LET f == fetch_recipes(ingredient_names, token, env.resp1, env.resp2)
        r == IF f.recipes = <<>>
             THEN store_empty_suggestion(user_id, scan_id, ingredient_names,
                                         st, env)
             ELSE store_and_notify(user_id, scan_id, ingredient_names,
                                   f.recipes, st, env)
    IN  [r EXCEPT !.calls = f.calls]

\* the early returns on scan_id, user_id and token (`if not x: return`)
RequiredFieldMissing_SkipsUserId(scan_id, user_id, token) ==
    Falsy(scan_id) \/ Falsy(token)

RequiredFieldMissing(scan_id, user_id, token) ==
    Falsy(scan_id) \/ Falsy(user_id) \/ Falsy(token)

\* [item.get("name") for item in ingredients_data if item.get("name")]
\* An item is [isdict |-> TRUE, name |-> ..] (name absent when the dict has
\* no such key) or a bare string [isdict |-> FALSE, str |-> ..], which has
\* no get(): the comprehension raises.
ExtractNames(ingredients_data) ==
    LET keep == {i \in 1..Len(ingredients_data) :
                    ~Falsy(Get(ingredients_data[i], "name", "None"))}
        F[i \in 0..Len(ingredients_data)] ==
            IF i = 0 THEN <<>>
            ELSE IF i \in keep
                 THEN Append(F[i-1], ingredients_data[i].name)
                 ELSE F[i-1]
    IN  [raised |-> \E i \in 1..Len(ingredients_data) :
                        ~ingredients_data[i].isdict,
         names |-> F[Len(ingredients_data)]]

\* `if not ingredient_names: return`
NoIngredientNames_NeverDrops(ingredient_names) == FALSE

NoIngredientNames(ingredient_names) == ingredient_names = <<>>

\* process_detected_ingredients(ch, method, properties, body): the consumer
\* callback of queue detected_ingredients.  Every exception is caught and
\* logged inside the callback.
process_detected_ingredients(body, st, env) ==
    LET parsed == json_loads(body)
        message == parsed.val
        scan_id == Get(message, "scan_id", "None")
        user_id == Get(message, "user_id", "None")
        token == Get(message, "token", "None")
        ingredients_data == Get(message, "ingredients", <<>>)
        ex == ExtractNames(ingredients_data)
    IN  IF parsed.raised \/ ~parsed.isdict THEN Dropped(st)
        ELSE IF RequiredFieldMissing(scan_id, user_id, token) THEN Dropped(st)
        ELSE IF ingredients_data = <<>> THEN Dropped(st)
        ELSE IF ex.raised THEN Dropped(st)
        ELSE IF NoIngredientNames(ex.names) THEN Dropped(st)
        ELSE process_ingredients_async(user_id, scan_id, ex.names, token,
                                       st, env)

\* ------------------------------------------- shopping-list service handler
\* get_meal_plan_ingredients(meal_plan_id, token): GET the plan and each of
\* its recipes, collect the recipes' ingredients in a set.  plan.items is
\* the ingredients of the plan's recipes, flattened.  An httpx.HTTPError
\* yields []; a dict ingredient is unhashable and set.update raises.
get_meal_plan_ingredients(meal_plan_id, token, plan) ==
    LET req == [meal_plan_id |-> meal_plan_id, token |-> token] IN
    IF plan.status # 200
    THEN [raised |-> FALSE, ingredients |-> {}, calls |-> <<req>>]
    ELSE IF \E i \in 1..Len(plan.items) : plan.items[i].isdict
    THEN [raised |-> TRUE, ingredients |-> {}, calls |-> <<req>>]
    ELSE [raised |-> FALSE,
          ingredients |-> {plan.items[i] : i \in 1..Len(plan.items)},
          calls |-> <<req>>]

\* create_shopping_list_from_meal_plan(user_id, meal_plan_id): the body is
\* one try block.  ingredient["name"] raises on a str ingredient.  The
\* publish_message of the shopping-list client is a coroutine function and
\* is called without await: the call sends nothing.
create_shopping_list_from_meal_plan(user_id, meal_plan_id, st, env) ==
    LET g == get_meal_plan_ingredients(meal_plan_id, "service_token", env.plan)
        shopping_list_id == "uuid" \o ToString(st.oid)
        shopping_list_data ==
            [id |-> shopping_list_id, user_id |-> user_id,
             name |-> "Shopping List for Meal Plan",
             items |-> {[name |-> x.name, checked |-> FALSE] :
                            x \in g.ingredients},
             meal_plan_id |-> meal_plan_id]
        ins == insert_one(st.docs, st.oid, shopping_list_data, env.db_ok)
        quiet == [Dropped(st) EXCEPT !.calls = g.calls]
    IN  IF g.raised THEN quiet
        ELSE IF g.ingredients = {} THEN quiet
        ELSE IF \E x \in g.ingredients : ~x.isdict THEN quiet
        ELSE IF ins.raised THEN [quiet EXCEPT !.insert_attempted = TRUE]
        ELSE [docs |-> ins.docs, oid |-> ins.oid, c |-> st.c,
              calls |-> g.calls, insert_attempted |-> TRUE,
              inserted |-> TRUE, inserted_id |-> ins.inserted_id,
              pub_ret |-> "never awaited", sent |-> <<>>, escaped |-> FALSE]

\* startup_db_client.process_meal_plan_created(ch, method, properties, body):
\* the consumer callback of queue meal_plans_created.  It passes
\* (meal_plan_id, user_id) to a function declared (user_id, meal_plan_id).
process_meal_plan_created(body, st, env) ==
    LET parsed == json_loads(body)
        message == parsed.val
        meal_plan_id == Get(message, "meal_plan_id", "None")
        user_id == Get(message, "user_id", "None")
    IN  IF parsed.raised \/ ~parsed.isdict THEN Dropped(st)
        ELSE IF Falsy(meal_plan_id) \/ Falsy(user_id) THEN Dropped(st)
        ELSE create_shopping_list_from_meal_plan(meal_plan_id, user_id,
                                                 st, env)

\* ------------------------------------------------------------ deliveries
\* Ingredient items of an event: dicts with a name, a dict whose name is
\* null, and a bare string (as in test_rabbitmq.py).  The lists repeat one
\* name up to MaxIngredients times, mix two names, and carry items without
\* a name.
Item(n) == [isdict |-> TRUE, name |-> n]
NullItem == [isdict |-> TRUE, name |-> "None"]
StrItem == [isdict |-> FALSE, str |-> "Tomatoes"]
ItemLists ==
    {[i \in 1..n |-> Item("egg")] : n \in 0..MaxIngredients}
    \cup {<<Item("milk")>>, <<Item("egg"), Item("milk")>>,
          <<NullItem>>, <<NullItem, Item("egg")>>, <<StrItem>>}
GoodItems == <<Item("egg")>>

\* ingredient.detected events: complete ones for scan s1 with every
\* ingredients list and for the other scans with one list, ones without the
\* ingredients key, and ones with one header field absent, null or empty.
IngredientMessages ==
    {[scan_id |-> "s1", user_id |-> u, token |-> t, ingredients |-> l] :
        u \in UserIds, t \in Tokens, l \in ItemLists}
    \cup {[scan_id |-> sc, user_id |-> u, token |-> t,
           ingredients |-> GoodItems] :
        sc \in ScanIds, u \in UserIds, t \in Tokens}
    \cup {[scan_id |-> sc, user_id |-> u, token |-> t] :
        sc \in ScanIds, u \in UserIds, t \in Tokens}
    \cup {[user_id |-> "u1", token |-> "t1", ingredients |-> GoodItems],
          [scan_id |-> "", user_id |-> "u1", token |-> "t1",
           ingredients |-> GoodItems],
          [scan_id |-> "s1", token |-> "t1", ingredients |-> GoodItems],
          [scan_id |-> "s1", user_id |-> "None", token |-> "t1",
           ingredients |-> GoodItems],
          [scan_id |-> "s1", user_id |-> "u1", ingredients |-> GoodItems]}

IngredientBodies ==
    {[wire |-> "garbage"], [wire |-> "json_list"]}
    \cup {[wire |-> "json_dict", val |-> m] : m \in IngredientMessages}

MealPlanMessages ==
    {[meal_plan_id |-> m, user_id |-> u] : m \in MealPlanIds, u \in UserIds}
    \cup {[meal_plan_id |-> m] : m \in MealPlanIds}
    \cup {[user_id |-> u] : u \in UserIds}
    \cup {[meal_plan_id |-> "", user_id |-> u] : u \in UserIds}

MealPlanBodies ==
    {[wire |-> "garbage"], [wire |-> "json_list"]}
    \cup {[wire |-> "json_dict", val |-> m] : m \in MealPlanMessages}

\* what the meal-planning service answers for a plan and its recipes
PlanItems ==
    {[isdict |-> FALSE, str |-> "egg"], [isdict |-> FALSE, str |-> "Egg"],
     [isdict |-> TRUE, name |-> "egg"]}
Plans ==
    {[status |-> 404, items |-> <<>>]}
    \cup {[status |-> 200, items |-> l] :
            l \in UNION {[1..n -> PlanItems] : n \in 0..MaxIngredients}}

\* what fails during one handler invocation: nothing, the document store, or
\* the link to the broker
Faults == {"none", "store", "link"}

\* ---------------------------------------------------------------- pipeline
\* The state after both services started with the broker reachable: the
\* meal-planning client is connected, the exchanges are declared and the
\* consumers are subscribed.
Init ==
    /\ recipe_suggestions = <<>>
    /\ shopping_lists = <<>>
    /\ next_oid = 1
    /\ broker_msgs = <<>>
    /\ broker_exchanges = {"ingredients", "meal_plans", "shopping_lists"}
    /\ mp_client = [connection |-> "open", channel |-> "open"]
    /\ handled = 0
    /\ last = NoRun
    /\ sh_client = ShClient(3, 5, "meal_plans")
    /\ sc_client = NewClient
    /\ sl_client = SlClient
    /\ calls_made = 0
    /\ call = NoCall
    /\ consumer = NoConsumer(TRUE)
    /\ detected_queue = EmptyQueue
    /\ dispatch = NoDispatch
    /\ broker_queues = QueuesOf(AllDeclarations)
    /\ broker_bindings = BindingsOf(AllDeclarations)
    /\ services = AllServing
    /\ setup_call = NoSetup
    /\ scans = <<>>
    /\ response = NoResponse
    /\ shared = NoShared

\* a delivery from queue detected_ingredients to process_detected_ingredients
DeliverIngredientDetected ==
    /\ handled < MaxDeliveries
    /\ last.handler = "none"
    /\ \E body \in IngredientBodies, resp1 \in Responses,
          fault \in Faults :
       \E db_ok \in {fault # "store"}, link \in {IF fault = "link" THEN "error" ELSE "ok"},
          resp2 \in IF resp1.status = 401 THEN Responses ELSE {resp1},
          conn \in IF mp_client.channel = "None" THEN ConnectOutcomes
                   ELSE {"ok"} :
         LET env == [resp1 |-> resp1, resp2 |-> resp2, db_ok |-> db_ok,
                     conn |-> conn, link |-> link]
             st == [docs |-> recipe_suggestions, oid |-> next_oid,
                    c |-> mp_client, exchanges |-> broker_exchanges]
         IN  \E r \in {process_detected_ingredients(body, st, env)} :
             /\ recipe_suggestions' = r.docs
             /\ next_oid' = r.oid
             /\ mp_client' = r.c
             /\ broker_msgs' = broker_msgs \o r.sent
             /\ last' = [handler |-> "ingredient.detected", body |-> body,
                         env |-> env, calls |-> r.calls,
                         insert_attempted |-> r.insert_attempted,
                         inserted |-> r.inserted,
                         inserted_id |-> r.inserted_id,
                         pub_ret |-> r.pub_ret, sent |-> r.sent,
                         escaped |-> r.escaped, plan |-> NoRun.plan]
    /\ handled' = handled + 1
    /\ UNCHANGED <<shopping_lists, broker_exchanges>>
    /\ UNCHANGED clientVars
    /\ UNCHANGED <<consumerVars, topologyVars, scans, response, shared>>

\* a delivery from queue meal_plans_created to process_meal_plan_created
DeliverMealPlanCreated ==
    /\ handled < MaxDeliveries
    /\ last.handler = "none"
    /\ \E body \in MealPlanBodies, plan \in Plans, db_ok \in BOOLEAN :
         LET env == [plan |-> plan, db_ok |-> db_ok]
             st == [docs |-> shopping_lists, oid |-> next_oid,
                    c |-> mp_client, exchanges |-> broker_exchanges]
         IN  \E r \in {process_meal_plan_created(body, st, env)} :
             /\ shopping_lists' = r.docs
             /\ next_oid' = r.oid
             /\ broker_msgs' = broker_msgs \o r.sent
             /\ last' = [handler |-> "meal_plan.created", body |-> body,
                         env |-> [NoRun.env EXCEPT !.db_ok = db_ok],
                         calls |-> r.calls,
                         insert_attempted |-> r.insert_attempted,
                         inserted |-> r.inserted,
                         inserted_id |-> r.inserted_id,
                         pub_ret |-> r.pub_ret, sent |-> r.sent,
                         escaped |-> r.escaped, plan |-> plan]
    /\ handled' = handled + 1
    /\ UNCHANGED <<recipe_suggestions, broker_exchanges, mp_client>>
    /\ UNCHANGED clientVars
    /\ UNCHANGED <<consumerVars, topologyVars, scans, response, shared>>

\* the callback has returned: the dispatcher goes back to polling and the
\* invocation's record is dropped
HandlerReturn ==
    /\ last.handler # "none"
    /\ ~last.escaped
    /\ last' = NoRun
    /\ UNCHANGED <<recipe_suggestions, shopping_lists, next_oid, broker_msgs,
                   broker_exchanges, mp_client, handled>>
    /\ UNCHANGED clientVars
    /\ UNCHANGED <<consumerVars, topologyVars, scans, response, shared>>

Next == DeliverIngredientDetected \/ DeliverMealPlanCreated \/ HandlerReturn

Spec == Init /\ [][Next]_vars

\* ------------------------------------------------------------ client calls
\* The clients as constructed, before any service has connected; the broker
\* has the exchanges of the topology.  A shared client is configured with
\* any max_retries up to MaxRetries.
RetryDelays == {1, 5}
Exchanges == {"meal_plans", "missing"}
PublishMessages ==
    {[scan_id |-> "s1", user_id |-> "u1"],
     [scan_id |-> "s1", user_id |-> "u1", created_at |-> "datetime"]}

InitClient ==
    /\ recipe_suggestions = <<>>
    /\ shopping_lists = <<>>
    /\ next_oid = 1
    /\ broker_msgs = <<>>
    /\ broker_exchanges = {"ingredients", "meal_plans", "shopping_lists"}
    /\ mp_client = NewClient
    /\ handled = 0
    /\ last = NoRun
    /\ sh_client \in {ShClient(n, d, e) :
                        n \in 0..MaxRetries, d \in RetryDelays, e \in Exchanges}
    /\ sc_client = NewClient
    /\ sl_client = SlClient
    /\ calls_made = 0
    /\ call = NoCall
    /\ consumer = NoConsumer(TRUE)
    /\ detected_queue = EmptyQueue
    /\ dispatch = NoDispatch
    /\ broker_queues = QueuesOf(AllDeclarations)
    /\ broker_bindings = BindingsOf(AllDeclarations)
    /\ services = AllServing
    /\ setup_call = NoSetup
    /\ scans = <<>>
    /\ response = NoResponse
    /\ shared = NoShared

CanCall == calls_made < MaxCalls /\ call.op = "none"

Returned(op, client, before, exchange, message, outs, link, r, sent) ==
    [op |-> op, client |-> client, before |-> before, exchange |-> exchange,
     message |-> message, outs |-> outs, link |-> link,
     ret |-> r.ret, log |-> r.log, sent |-> sent]

ConnectShared ==
    /\ CanCall
    /\ \E outs \in [1..sh_client.max_retries -> ConnectOutcomes] :
       \E r \in {sh_connect(sh_client, outs)} :
         /\ sh_client' = r.c
         /\ call' = Returned("connect", "shared", sh_client, "none",
                             NoCall.message, outs, "ok", r, <<>>)
    /\ calls_made' = calls_made + 1
    /\ UNCHANGED <<pipelineVars, broker_msgs, broker_exchanges, mp_client,
                   sc_client, sl_client>>
    /\ UNCHANGED <<consumerVars, topologyVars, scans, response, shared>>

ConnectMealPlanning ==
    /\ CanCall
    /\ \E o \in ConnectOutcomes :
       \E r \in {mp_connect(mp_client, o)} :
         /\ mp_client' = r.c
         /\ call' = Returned("connect", "meal_planning", mp_client, "none",
                             NoCall.message, <<o>>, "ok", r, <<>>)
    /\ calls_made' = calls_made + 1
    /\ UNCHANGED <<pipelineVars, broker_msgs, broker_exchanges, sh_client,
                   sc_client, sl_client>>
    /\ UNCHANGED <<consumerVars, topologyVars, scans, response, shared>>

ConnectScanner ==
    /\ CanCall
    /\ \E o \in ConnectOutcomes :
       \E r \in {sc_connect(sc_client, o)} :
         /\ sc_client' = r.c
         /\ call' = Returned("connect", "scanner", sc_client, "none",
                             NoCall.message, <<o>>, "ok", r, <<>>)
    /\ calls_made' = calls_made + 1
    /\ UNCHANGED <<pipelineVars, broker_msgs, broker_exchanges, mp_client,
                   sh_client, sl_client>>
    /\ UNCHANGED <<consumerVars, topologyVars, scans, response, shared>>

ConnectShoppingList ==
    /\ CanCall
    /\ \E outs \in [1..MaxAttempts -> ConnectOutcomes],
          cleared_after \in 0..(MaxAttempts + 1) :
       \E r \in {sl_connect(sl_client, outs, cleared_after)} :
         /\ sl_client' = r.c
         /\ call' = Returned("connect", "shopping_list", sl_client, "none",
                             NoCall.message, outs, "ok", r, <<>>)
    /\ calls_made' = calls_made + 1
    /\ UNCHANGED <<pipelineVars, broker_msgs, broker_exchanges, mp_client,
                   sh_client, sc_client>>
    /\ UNCHANGED <<consumerVars, topologyVars, scans, response, shared>>

PublishShared ==
    /\ CanCall
    /\ \E message \in PublishMessages, link \in LinkOutcomes,
          outs \in [1..sh_client.max_retries -> ConnectOutcomes] :
       \E r \in {sh_publish_message(sh_client, broker_exchanges, message,
                                    outs, link)} :
         /\ sh_client' = r.c
         /\ broker_msgs' = broker_msgs \o r.sent
         /\ call' = Returned("publish", "shared", sh_client,
                             sh_client.exchange, message, outs, link, r, r.sent)
    /\ calls_made' = calls_made + 1
    /\ UNCHANGED <<pipelineVars, broker_exchanges, mp_client, sc_client,
                   sl_client>>
    /\ UNCHANGED <<consumerVars, topologyVars, scans, response, shared>>

PublishMealPlanning ==
    /\ CanCall
    /\ \E exchange_name \in Exchanges, message \in PublishMessages,
          o \in ConnectOutcomes, link \in LinkOutcomes :
       \E r \in {mp_publish_message(mp_client, broker_exchanges, exchange_name,
                                    "recipe.suggestion", message, o, link)} :
         /\ mp_client' = r.c
         /\ broker_msgs' = broker_msgs \o r.sent
         /\ call' = Returned("publish", "meal_planning", mp_client,
                             exchange_name, message, <<o>>, link,
                             [ret |-> r.ret, log |-> <<>>], r.sent)
    /\ calls_made' = calls_made + 1
    /\ UNCHANGED <<pipelineVars, broker_exchanges, sh_client, sc_client,
                   sl_client>>
    /\ UNCHANGED <<consumerVars, topologyVars, scans, response, shared>>

PublishScanner ==
    /\ CanCall
    /\ \E exchange_name \in {"ingredients", "missing"},
          message \in PublishMessages,
          o \in ConnectOutcomes, link \in LinkOutcomes :
       \E r \in {sc_publish_message(sc_client, broker_exchanges, exchange_name,
                                    "ingredient.detected", message, o, link)} :
         /\ sc_client' = r.c
         /\ broker_msgs' = broker_msgs \o r.sent
         /\ call' = Returned("publish", "scanner", sc_client,
                             exchange_name, message, <<o>>, link, r, r.sent)
    /\ calls_made' = calls_made + 1
    /\ UNCHANGED <<pipelineVars, broker_exchanges, mp_client, sh_client,
                   sl_client>>
    /\ UNCHANGED <<consumerVars, topologyVars, scans, response, shared>>

\* the link of a connected client drops: its connection and channel objects
\* stay assigned but are closed
Lose(c) == [c EXCEPT !.connection = "closed", !.channel = "closed"]

ConnectionLost ==
    /\ call.op = "none"
    /\ \/ mp_client.channel = "open" /\ mp_client' = Lose(mp_client)
          /\ UNCHANGED <<sh_client, sc_client, sl_client>>
       \/ sh_client.channel = "open" /\ sh_client' = Lose(sh_client)
          /\ UNCHANGED <<mp_client, sc_client, sl_client>>
       \/ sc_client.channel = "open" /\ sc_client' = Lose(sc_client)
          /\ UNCHANGED <<mp_client, sh_client, sl_client>>
       \/ sl_client.channel = "open" /\ sl_client' = Lose(sl_client)
          /\ UNCHANGED <<mp_client, sh_client, sc_client>>
    /\ UNCHANGED <<pipelineVars, broker_msgs, broker_exchanges, calls_made,
                   call>>
    /\ UNCHANGED <<consumerVars, topologyVars, scans, response, shared>>

\* the meal-planning service closes its client
CloseMealPlanning ==
    /\ call.op = "none"
    /\ mp_client.connection = "open"
    /\ mp_client' = mp_close(mp_client)
    /\ UNCHANGED <<pipelineVars, broker_msgs, broker_exchanges, sh_client,
                   sc_client, sl_client, calls_made, call>>
    /\ UNCHANGED <<consumerVars, topologyVars, scans, response, shared>>

\* the caller has the return value; the next call can be made
CallReturn ==
    /\ call.op # "none"
    /\ call' = NoCall
    /\ UNCHANGED <<pipelineVars, broker_msgs, broker_exchanges, mp_client,
                   sh_client, sc_client, sl_client, calls_made>>
    /\ UNCHANGED <<consumerVars, topologyVars, scans, response, shared>>

NextClient ==
    \/ ConnectShared \/ ConnectMealPlanning \/ ConnectScanner
    \/ ConnectShoppingList
    \/ PublishShared \/ PublishMealPlanning \/ PublishScanner
    \/ ConnectionLost \/ CloseMealPlanning \/ CallReturn

SpecClient == InitClient /\ [][NextClient]_vars

\* ------------------------------------------------------ consumer lifecycle
\* The meal-planning client consuming detected_ingredients: the service's
\* main thread calls start_consuming and stop_consuming, consume_thread
\* runs beside it, the broker queues messages and drops connections.
JoinTimeout == 5

InitConsumer ==
    /\ recipe_suggestions = <<>>
    /\ shopping_lists = <<>>
    /\ next_oid = 1
    /\ broker_msgs = <<>>
    /\ broker_exchanges = {"ingredients", "meal_plans", "shopping_lists"}
    /\ mp_client = NewClient
    /\ handled = 0
    /\ last = NoRun
    /\ sh_client = ShClient(3, 5, "meal_plans")
    /\ sc_client = NewClient
    /\ sl_client = SlClient
    /\ calls_made = 0
    /\ call = NoCall
    /\ consumer \in {NoConsumer(a) : a \in BOOLEAN}
    /\ detected_queue = EmptyQueue
    /\ dispatch = NoDispatch
    /\ broker_queues = QueuesOf(AllDeclarations)
    /\ broker_bindings = BindingsOf(AllDeclarations)
    /\ services = AllServing
    /\ setup_call = NoSetup
    /\ scans = <<>>
    /\ response = NoResponse
    /\ shared = NoShared

restVars == <<recipe_suggestions, shopping_lists, next_oid, broker_msgs,
              broker_exchanges, mp_client, handled, last, clientVars,
              topologyVars, scans, response, shared>>

\* start_consuming(queue_name, callback, auto_ack): connect when there is
\* no channel and give up quietly when that fails; basic_consume; create
\* and start the thread.  basic_consume on a channel that is not open
\* raises out of start_consuming before a thread exists.
mp_start_consuming(c, o) ==
    LET c1 == IF c.channel = "None" /\ o = "ok"
              THEN [c EXCEPT !.channel = "open"] ELSE c
    IN  IF c1.channel # "open" THEN c1
        ELSE [c1 EXCEPT !.subscribed = TRUE, !.thread = "started"]

StartConsuming ==
    /\ consumer.thread = "none"
    /\ consumer.stops = 0
    /\ \E o \in ConnectOutcomes :
         consumer' = [mp_start_consuming(consumer, o) EXCEPT !.fresh = FALSE]
    /\ UNCHANGED <<detected_queue, dispatch, restVars>>

\* consume_thread, first statement: self._consuming = True
ConsumeThreadBegin ==
    /\ consumer.thread = "started"
    /\ consumer' = [consumer EXCEPT !.consuming = TRUE, !.thread = "loop",
                                    !.fresh = FALSE]
    /\ UNCHANGED <<detected_queue, dispatch, restVars>>

\* `while self._consuming:` is false: the loop ends and the finally block
\* clears the flag
ConsumeThreadExit ==
    /\ consumer.thread = "loop"
    /\ ~consumer.consuming
    /\ consumer' = [consumer EXCEPT !.thread = "done", !.fresh = FALSE]
    /\ UNCHANGED <<detected_queue, dispatch, restVars>>

\* what the broker does with a message it delivers: with auto_ack it
\* counts as acknowledged on delivery, otherwise it waits for basic_ack
Delivered(q, auto_ack) ==
    [q EXCEPT !.ready = Tail(q.ready),
              !.acked = IF auto_ack THEN q.acked \cup {Head(q.ready)}
                        ELSE q.acked,
              !.unacked = IF auto_ack THEN q.unacked
                          ELSE q.unacked \cup {Head(q.ready)}]

\* the callback registered by startup_db_client, process_detected_ingredients,
\* never calls ch.basic_ack
AckedByCallback(q, msg, outcome) == q

\* the except branch of the loop after process_data_events raised:
\* `if not self._consuming: break`, else go on to reconnect
AfterPollError(c) == [c EXCEPT !.thread = "reconnect"]

\* process_data_events(time_limit=1) hands one message of the queue to the
\* callback, which returns or raises; an exception of the callback comes
\* out of process_data_events
ConsumeThreadDeliver ==
    /\ consumer.thread = "loop"
    /\ consumer.consuming
    /\ consumer.channel = "open"
    /\ consumer.subscribed
    /\ detected_queue.ready # <<>>
    /\ \E outcome \in {"returned", "raised"} :
         LET msg == Head(detected_queue.ready) IN
         /\ detected_queue' =
              AckedByCallback(Delivered(detected_queue, consumer.auto_ack),
                              msg, outcome)
         /\ dispatch' = [dispatch EXCEPT
                           !.passed = Append(@, [msg |-> msg,
                                                 outcome |-> outcome]),
                           !.raised = @ \/ outcome = "raised"]
         /\ consumer' = [(IF outcome = "raised" THEN AfterPollError(consumer)
                          ELSE consumer) EXCEPT !.fresh = FALSE]
    /\ UNCHANGED restVars

\* process_data_events on a connection that is gone raises
ConsumeThreadPollFails ==
    /\ consumer.thread = "loop"
    /\ consumer.consuming
    /\ consumer.channel = "closed"
    /\ consumer' = [AfterPollError(consumer) EXCEPT !.fresh = FALSE]
    /\ UNCHANGED <<detected_queue, dispatch, restVars>>

\* the except branch: `if not self._consuming: break`, then
\* `if not self.connect(): break`.  connect() replaces self.connection and
\* self.channel; nothing calls basic_consume on the new channel.
consume_thread_reconnect(c, o) ==
    IF ~c.consuming THEN [c EXCEPT !.thread = "done"]
    ELSE IF o = "ok"
    THEN [c EXCEPT !.channel = "open", !.subscribed = FALSE, !.thread = "loop"]
    ELSE [c EXCEPT !.consuming = FALSE, !.thread = "done"]

ConsumeThreadReconnect ==
    /\ consumer.thread = "reconnect"
    /\ \E o \in ConnectOutcomes :
         consumer' = [consume_thread_reconnect(consumer, o)
                        EXCEPT !.fresh = FALSE]
    /\ UNCHANGED <<detected_queue, dispatch, restVars>>

\* stop_consuming(), up to the join: clear the flag; with a channel, call
\* channel.stop_consuming() inside try/except.  That call cancels the
\* channel's consumers; on a closed channel it raises.  While
\* consume_thread is in its loop the call races with the thread's use of
\* the same connection, which pika does not support: it cancels or it
\* raises.
Alive(c) == c.thread \notin {"none", "done"}

CancelOutcomes(c) ==
    IF c.channel = "None" THEN {"skipped"}
    ELSE IF c.channel = "closed" THEN {"error"}
    ELSE IF c.thread \in {"loop", "reconnect"} THEN {"cancelled", "error"}
    ELSE {"cancelled"}

\* the first stop_consuming call has returned: note how many messages the
\* callback had been passed by then
StopReturned(d) ==
    IF d.at_stop = -1 THEN [d EXCEPT !.at_stop = Len(d.passed)] ELSE d

stop_consuming_begin(c, cancel) ==
    [c EXCEPT !.consuming = FALSE,
              !.subscribed = IF cancel = "cancelled" THEN FALSE ELSE @,
              !.stops = @ + 1,
              !.waited = 0,
              !.stop = IF Alive(c) THEN "joining" ELSE "returned",
              !.fresh = ~Alive(c)]

StopConsumingBegin ==
    /\ consumer.stop # "joining"
    /\ consumer.stops < MaxStops
    /\ \E cancel \in CancelOutcomes(consumer) :
         consumer' = stop_consuming_begin(consumer, cancel)
    /\ dispatch' = IF Alive(consumer) THEN dispatch
                   ELSE StopReturned(dispatch)
    /\ UNCHANGED <<detected_queue, restVars>>

\* `self.consumer_thread.join(timeout=5)`: returns when the thread has
\* ended or when the timeout has passed, whichever is first
JoinWait(c) == IF c.thread = "done" THEN 0..JoinTimeout ELSE {JoinTimeout}

StopConsumingJoin ==
    /\ consumer.stop = "joining"
    /\ \E w \in JoinWait(consumer) :
         consumer' = [consumer EXCEPT !.stop = "returned", !.waited = w,
                                      !.fresh = TRUE]
    /\ dispatch' = StopReturned(dispatch)
    /\ UNCHANGED <<detected_queue, restVars>>

\* a publisher's message is routed to the queue
Enqueue ==
    /\ detected_queue.published < MaxMessages
    /\ detected_queue' =
         [detected_queue EXCEPT !.published = @ + 1,
                                !.ready = Append(@, detected_queue.published + 1)]
    /\ consumer' = [consumer EXCEPT !.fresh = FALSE]
    /\ UNCHANGED <<dispatch, restVars>>

\* the messages of a set, oldest first
RECURSIVE Ascending(_)
Ascending(S) ==
    IF S = {} THEN <<>>
    ELSE LET m == CHOOSE x \in S : \A y \in S : x <= y
         IN  <<m>> \o Ascending(S \ {m})

\* the connection of the consumer drops: its channel is closed, the broker
\* forgets the channel's consumer and requeues what was not acknowledged
ConsumerConnectionLost ==
    /\ consumer.channel = "open"
    /\ consumer' = [consumer EXCEPT !.channel = "closed",
                                    !.subscribed = FALSE, !.fresh = FALSE]
    /\ detected_queue' =
         [detected_queue EXCEPT
            !.ready = Ascending(detected_queue.unacked) \o @,
            !.unacked = {}]
    /\ dispatch' = [dispatch EXCEPT !.lost = TRUE]
    /\ UNCHANGED restVars

NextConsumer ==
    \/ StartConsuming
    \/ ConsumeThreadBegin \/ ConsumeThreadExit \/ ConsumeThreadDeliver
    \/ ConsumeThreadPollFails \/ ConsumeThreadReconnect
    \/ StopConsumingBegin \/ StopConsumingJoin
    \/ Enqueue \/ ConsumerConnectionLost

SpecConsumer == InitConsumer /\ [][NextConsumer]_vars

\* --------------------------------------------------- startup and topology
\* The services start against an empty broker; each startup handler runs
\* its queue setup, and a setup can be called again later.
StartupRetries == 5


InitTopology ==
    /\ recipe_suggestions = <<>>
    /\ shopping_lists = <<>>
    /\ next_oid = 1
    /\ broker_msgs = <<>>
    /\ broker_exchanges = {}
    /\ mp_client = NewClient
    /\ handled = 0
    /\ last = NoRun
    /\ sh_client = ShClient(3, 5, "meal_plans")
    /\ sc_client = NewClient
    /\ sl_client = SlClient
    /\ calls_made = 0
    /\ call = NoCall
    /\ consumer = NoConsumer(TRUE)
    /\ detected_queue = EmptyQueue
    /\ dispatch = NoDispatch
    /\ broker_queues = {}
    /\ broker_bindings = {}
    /\ services = [s \in ServiceNames |-> "down"]
    /\ setup_call = NoSetup
    /\ scans = <<>>
    /\ response = NoResponse
    /\ shared = NoShared

untouched == <<recipe_suggestions, shopping_lists, next_oid, broker_msgs,
               handled, last, calls_made, call, detected_queue, dispatch,
               scans, response, shared>>

Broker == BrokerOf(broker_exchanges, broker_queues, broker_bindings)

SetBroker(b) ==
    /\ broker_exchanges' = b.exchanges
    /\ broker_queues' = b.queues
    /\ broker_bindings' = b.bindings

\* setups called after the startups so far
SetupsCalled == IF setup_call.by = "none" THEN 0 ELSE setup_call.n

SetupRecord(service, by, r, ran, fail_at) ==
    [service |-> service, by |-> by, raised |-> r.raised, ran |-> ran,
     fail_at |-> fail_at,
     repeat |-> /\ setup_call.service = service
                /\ setup_call.by # "none"
                /\ setup_call.ran
                /\ ~setup_call.raised,
     n |-> SetupsCalled + (IF by = "call" THEN 1 ELSE 0)]

\* the declarations of a setup that are made to fail: none (0), the first
\* one, the last one (a binding)
FailPoints(decls) == {0, 1, Len(decls)}

\* startup_db_client of the meal-planning and the scanner service: ping the
\* database; `if rabbitmq_client.connect():` run the setup, else log a
\* warning and go on; every exception aborts the startup.  k is what
\* connect() returned, c the client before it.
startup_db_client(db_ok, c, k, o, decls, b, fail_at) ==
    IF ~db_ok
    THEN [c |-> c, b |-> b, status |-> "aborted", ran |-> FALSE,
          raised |-> FALSE]
    ELSE IF k.ret # "True"
    THEN [c |-> k.c, b |-> b, status |-> "serving", ran |-> FALSE,
          raised |-> FALSE]
    ELSE LET r == run_setup(k.c, o, decls, b, fail_at)
         IN  [c |-> r.c, b |-> r.b, ran |-> TRUE, raised |-> r.raised,
              status |-> IF r.raised THEN "aborted" ELSE "serving"]

StartupMealPlanning ==
    /\ services["meal_planning"] = "down"
    /\ \E db_ok \in BOOLEAN, o \in ConnectOutcomes,
          fail_at \in FailPoints(setup_meal_planning_queues) :
       \E r \in {startup_db_client(db_ok, mp_client,
                                   mp_connect(mp_client, o), o,
                                   setup_meal_planning_queues, Broker,
                                   fail_at)} :
         /\ mp_client' = r.c
         /\ SetBroker(r.b)
         /\ services' = [services EXCEPT !["meal_planning"] = r.status]
         /\ setup_call' = SetupRecord("meal_planning", "startup", r, r.ran,
                                      fail_at)
         /\ consumer' = IF r.ran /\ ~r.raised
                        THEN mp_start_consuming(
                                 [consumer EXCEPT !.channel = r.c.channel], o)
                        ELSE consumer
    /\ UNCHANGED <<untouched, sh_client, sc_client, sl_client>>

StartupScanner ==
    /\ services["ingredient_scanner"] = "down"
    /\ \E db_ok \in BOOLEAN, o \in ConnectOutcomes,
          fail_at \in FailPoints(setup_ingredient_scanner_queues) :
       \E r \in {startup_db_client(db_ok, sc_client,
                                   sc_connect(sc_client, o), o,
                                   setup_ingredient_scanner_queues, Broker,
                                   fail_at)} :
         /\ sc_client' = r.c
         /\ SetBroker(r.b)
         /\ services' = [services EXCEPT !["ingredient_scanner"] = r.status]
         /\ setup_call' = SetupRecord("ingredient_scanner", "startup", r,
                                      r.ran, fail_at)
    /\ UNCHANGED <<untouched, consumer, mp_client, sh_client, sl_client>>

\* startup_db_client of the shopping-list service, the RabbitMQ part:
\* `while retry_count < max_retries:` connect, run the setup, start the
\* consumer and break; an exception counts a retry, and the 5th one is
\* raised again and aborts the startup.  fails[k] is the declaration that
\* raises in the k-th round (0: none).
RECURSIVE sl_startup_from(_, _, _, _)
sl_startup_from(retry_count, c, b, fails) ==
    LET fail_at == fails[retry_count + 1]
        r == run_setup([c EXCEPT !.connection = "open", !.channel = "open"],
                       "ok", setup_shopping_list_queues, b, fail_at)
    IN  IF ~r.raised
        THEN [c |-> r.c, b |-> r.b, status |-> "serving", ran |-> TRUE,
              raised |-> FALSE, fail_at |-> fail_at]
        ELSE IF retry_count + 1 < StartupRetries
        THEN sl_startup_from(retry_count + 1, r.c, r.b, fails)
        ELSE [c |-> r.c, b |-> r.b, status |-> "aborted", ran |-> TRUE,
              raised |-> TRUE, fail_at |-> fail_at]

\* with the broker out of reach connect() does not return and the startup
\* stays in its first round.  The first failing rounds all fail at the
\* same declaration.
StartupShoppingList ==
    /\ services["shopping_list"] = "down"
    /\ \E db_ok \in BOOLEAN, reachable \in BOOLEAN,
          failing \in 0..StartupRetries,
          fail_at \in FailPoints(setup_shopping_list_queues) \ {0} :
       \E r \in {IF ~db_ok
                 THEN [c |-> sl_client, b |-> Broker, status |-> "aborted",
                       ran |-> FALSE, raised |-> FALSE, fail_at |-> 0]
                 ELSE IF ~reachable
                 THEN [c |-> sl_client, b |-> Broker, status |-> "connecting",
                       ran |-> FALSE, raised |-> FALSE, fail_at |-> 0]
                 ELSE sl_startup_from(0, sl_client, Broker,
                          [k \in 1..StartupRetries |->
                              IF k <= failing THEN fail_at ELSE 0])} :
         /\ sl_client' = r.c
         /\ SetBroker(r.b)
         /\ services' = [services EXCEPT !["shopping_list"] = r.status]
         /\ setup_call' = SetupRecord("shopping_list", "startup", r, r.ran,
                                      r.fail_at)
    /\ UNCHANGED <<untouched, consumer, mp_client, sh_client, sc_client>>

ClientOf(service) ==
    CASE service = "meal_planning" -> mp_client
      [] service = "ingredient_scanner" -> sc_client
      [] service = "shopping_list" -> sl_client

\* a service that is up calls its setup again
SetupAgain ==
    /\ SetupsCalled < MaxSetups
    /\ \E service \in ServiceNames, o \in ConnectOutcomes :
       \E fail_at \in FailPoints(SetupOf(service)) :
       \E r \in {run_setup(ClientOf(service), o, SetupOf(service), Broker,
                           fail_at)} :
         /\ services[service] = "serving"
         /\ mp_client' = IF service = "meal_planning" THEN r.c ELSE mp_client
         /\ sc_client' = IF service = "ingredient_scanner" THEN r.c
                         ELSE sc_client
         /\ sl_client' = IF service = "shopping_list" THEN r.c ELSE sl_client
         /\ SetBroker(r.b)
         /\ setup_call' = SetupRecord(service, "call", r,
                                      r.c.channel # "None", fail_at)
    /\ UNCHANGED <<untouched, consumer, sh_client, services>>

\* setup_queues() of the shared client: exchange, queue and binding of its
\* configuration; a failed connect raises and every exception is raised
\* again
sh_setup_queues(c, outs, b, fail_at) ==
    LET k == IF c.channel = "None" THEN sh_connect(c, outs)
             ELSE [c |-> c, ret |-> "True", log |-> <<>>]
        decls == << Ex(c.exchange), Qu(c.queue),
                    Bi(c.queue, c.exchange, c.routing_key) >>
    IN  IF k.ret # "True" \/ k.c.channel # "open"
        THEN [c |-> k.c, b |-> b, raised |-> TRUE]
        ELSE LET r == run_declarations(decls, 1, b, fail_at)
             IN  [c |-> k.c, b |-> r.b, raised |-> r.raised]

SetupShared ==
    /\ SetupsCalled < MaxSetups
    /\ \E o \in ConnectOutcomes, fail_at \in {0, 1, 3} :
       \E r \in {sh_setup_queues(sh_client,
                                 [k \in 1..sh_client.max_retries |-> o],
                                 Broker, fail_at)} :
         /\ sh_client' = r.c
         /\ SetBroker(r.b)
         /\ setup_call' = SetupRecord("shared", "call", r,
                                      r.c.channel = "open", fail_at)
    /\ UNCHANGED <<untouched, consumer, mp_client, sc_client, sl_client,
                   services>>

NextTopology ==
    \/ StartupMealPlanning \/ StartupScanner \/ StartupShoppingList
    \/ SetupAgain \/ SetupShared

SpecTopology == InitTopology /\ [][NextTopology]_vars


\* ---------------------------------------------------------- HTTP handlers
\* The request handlers that store a document and then publish an event:
\* scan_image and manual_input of the ingredient-scanner service and
\* create_shopping_list of the shopping-list service.  st is the
\* collection, the next id and the service's client; env is what the store,
\* a connect attempt and the link do during the request.
is_connected(c) == c.connection = "open" /\ c.channel = "open"

\* publish_scan_result(scan_result): connect when not connected and give
\* up with False when that fails, then publish_message to
\* ("ingredients", "ingredient.detected"); every exception yields False
sc_publish_scan_result(c, exchanges, scan_result, o, link) ==
    LET k == IF is_connected(c) THEN [c |-> c, ret |-> "True", log |-> <<>>]
             ELSE sc_connect(c, o)
    IN  IF k.ret # "True"
        THEN [c |-> k.c, ret |-> "False", sent |-> <<>>, log |-> k.log]
        ELSE sc_publish_message(k.c, exchanges, "ingredients",
                                "ingredient.detected", scan_result, o, link)

\* a request that failed with status code `status` before the store
\* was written
Failed(st, status) ==
    [docs |-> st.docs, oid |-> st.oid, c |-> st.c, status |-> status,
     inserted |-> FALSE, doc |-> NoResponse.doc, pub_ret |-> "none",
     sent |-> <<>>, skipped |-> FALSE]

\* scan_image: OCR the upload (image_ok: every step up to the extracted
\* ingredients worked), insert scan_result, which insert_one extends by
\* _id, and publish that same dict `if rabbitmq_client.is_connected()`,
\* else log a warning and skip; the publish sits in a try block whose
\* except only logs, and its return value is not looked at.
scan_image(user_id, ingredients, image_ok, st, env) ==
    LET scan_result == [scan_id |-> "scan" \o ToString(st.oid),
                        user_id |-> user_id, ingredients |-> ingredients,
                        created_at |-> "datetime"]
        ins == insert_one(st.docs, st.oid, scan_result, env.db_ok)
        stored == ins.docs[Len(ins.docs)]
        pub == sc_publish_scan_result(st.c, st.exchanges, stored,
                                      env.conn, env.link)
    IN  IF ~image_ok THEN Failed(st, 500)
        ELSE IF ins.raised THEN Failed(st, 500)
        ELSE IF is_connected(st.c)
        THEN [docs |-> ins.docs, oid |-> ins.oid, c |-> pub.c,
              status |-> 200, inserted |-> TRUE, doc |-> stored,
              pub_ret |-> pub.ret, sent |-> pub.sent, skipped |-> FALSE]
        ELSE [docs |-> ins.docs, oid |-> ins.oid, c |-> st.c,
              status |-> 200, inserted |-> TRUE, doc |-> stored,
              pub_ret |-> "none", sent |-> <<>>, skipped |-> TRUE]

\* manual_input: build scan_result (created_at as an ISO string) and
\* mongodb_scan_result (created_at as a datetime), insert the second,
\* connect when not connected and publish the first.  A failed connect and
\* a False from publish_scan_result raise HTTPException(500), which the
\* enclosing `except Exception` turns into the 500 of the response.
manual_input(user_id, token, ingredients, st, env) ==
    LET scan_id == "scan" \o ToString(st.oid)
        scan_result == [scan_id |-> scan_id, user_id |-> user_id,
                        token |-> token, ingredients |-> ingredients,
                        created_at |-> "isoformat"]
        mongodb_scan_result == [scan_result EXCEPT !.created_at = "datetime"]
        ins == insert_one(st.docs, st.oid, mongodb_scan_result, env.db_ok)
        stored == ins.docs[Len(ins.docs)]
        k == IF is_connected(st.c)
             THEN [c |-> st.c, ret |-> "True", log |-> <<>>]
             ELSE sc_connect(st.c, env.conn)
        pub == sc_publish_scan_result(k.c, st.exchanges, scan_result,
                                      env.conn, env.link)
    IN  IF ins.raised THEN Failed(st, 500)
        ELSE IF k.ret # "True"
        THEN [docs |-> ins.docs, oid |-> ins.oid, c |-> k.c,
              status |-> 500, inserted |-> TRUE, doc |-> stored,
              pub_ret |-> "none", sent |-> <<>>, skipped |-> FALSE]
        ELSE [docs |-> ins.docs, oid |-> ins.oid, c |-> pub.c,
              status |-> IF pub.ret = "True" THEN 200 ELSE 500,
              inserted |-> TRUE, doc |-> stored,
              pub_ret |-> pub.ret, sent |-> pub.sent, skipped |-> FALSE]

\* create_shopping_list: insert the list and return it with 201; the event
\* is left to a daemon thread whose publish_event calls the client's
\* publish_message, a coroutine function, without awaiting it: the call
\* builds a coroutine object, which is truthy, and sends nothing.
create_shopping_list(user_id, items, st, env) ==
    LET shopping_list_data ==
            [id |-> "uuid" \o ToString(st.oid), user_id |-> user_id,
             name |-> "list", items |-> items, meal_plan_id |-> "None",
             created_at |-> "datetime", updated_at |-> "datetime"]
        ins == insert_one(st.docs, st.oid, shopping_list_data, env.db_ok)
    IN  IF ins.raised THEN Failed(st, 500)
        ELSE [docs |-> ins.docs, oid |-> ins.oid, c |-> st.c,
              status |-> 201, inserted |-> TRUE,
              doc |-> ins.docs[Len(ins.docs)],
              pub_ret |-> "never awaited", sent |-> <<>>,
              skipped |-> FALSE]

\* the ingredient lists a scan or a manual input yields
ScanLists == {<<Item("egg")>>, <<Item("egg"), Item("milk")>>}

\* The services after their startups, the broker holding the whole
\* topology.  The scanner client is as its startup connect left it:
\* connected, or without channel after the "Will retry on demand" warning.
InitHttp ==
    /\ recipe_suggestions = <<>>
    /\ shopping_lists = <<>>
    /\ next_oid = 1
    /\ broker_msgs = <<>>
    /\ broker_exchanges = ExchangesOf(AllDeclarations)
    /\ mp_client = NewClient
    /\ handled = 0
    /\ last = NoRun
    /\ sh_client = ShClient(3, 5, "meal_plans")
    /\ sc_client \in {sc_connect(NewClient, o).c : o \in ConnectOutcomes}
    /\ sl_client = SlClient
    /\ calls_made = 0
    /\ call = NoCall
    /\ consumer = NoConsumer(TRUE)
    /\ detected_queue = EmptyQueue
    /\ dispatch = NoDispatch
    /\ broker_queues = QueuesOf(AllDeclarations)
    /\ broker_bindings = BindingsOf(AllDeclarations)
    /\ services = AllServing
    /\ setup_call = NoSetup
    /\ scans = <<>>
    /\ response = NoResponse
    /\ shared = NoShared

httpRest == <<recipe_suggestions, broker_exchanges, mp_client, handled, last,
              sh_client, sl_client, calls_made, call, consumerVars,
              topologyVars, shared>>

CanRequest == response.handler = "none" /\ response.n < MaxRequests

Responded(handler, before, env, r) ==
    [handler |-> handler, status |-> r.status, inserted |-> r.inserted,
     doc |-> r.doc, before |-> before, env |-> env, pub_ret |-> r.pub_ret,
     sent |-> r.sent, skipped |-> r.skipped, n |-> response.n + 1]

HttpEnvs ==
    {[db_ok |-> d, conn |-> o, link |-> l] :
        d \in BOOLEAN, o \in ConnectOutcomes, l \in LinkOutcomes}

\* POST /scan
ScanImage ==
    /\ CanRequest
    /\ \E user_id \in UserIds, ingredients \in ScanLists,
          image_ok \in BOOLEAN, env \in HttpEnvs :
         LET st == [docs |-> scans, oid |-> next_oid, c |-> sc_client,
                    exchanges |-> broker_exchanges]
         IN  \E r \in {scan_image(user_id, ingredients, image_ok, st, env)} :
             /\ scans' = r.docs
             /\ next_oid' = r.oid
             /\ sc_client' = r.c
             /\ broker_msgs' = broker_msgs \o r.sent
             /\ response' = Responded("scan_image", sc_client, env, r)
    /\ UNCHANGED <<httpRest, shopping_lists>>

\* POST /manual-input
ManualInput ==
    /\ CanRequest
    /\ \E user_id \in UserIds, token \in Tokens, ingredients \in ScanLists,
          env \in HttpEnvs :
         LET st == [docs |-> scans, oid |-> next_oid, c |-> sc_client,
                    exchanges |-> broker_exchanges]
         IN  \E r \in {manual_input(user_id, token, ingredients, st, env)} :
             /\ scans' = r.docs
             /\ next_oid' = r.oid
             /\ sc_client' = r.c
             /\ broker_msgs' = broker_msgs \o r.sent
             /\ response' = Responded("manual_input", sc_client, env, r)
    /\ UNCHANGED <<httpRest, shopping_lists>>

\* POST /shopping-lists
CreateShoppingList ==
    /\ CanRequest
    /\ \E user_id \in UserIds, items \in ScanLists, env \in HttpEnvs :
         LET st == [docs |-> shopping_lists, oid |-> next_oid,
                    c |-> sl_client, exchanges |-> broker_exchanges]
         IN  \E r \in {create_shopping_list(user_id, items, st, env)} :
             /\ shopping_lists' = r.docs
             /\ next_oid' = r.oid
             /\ broker_msgs' = broker_msgs \o r.sent
             /\ response' = Responded("create_shopping_list", sl_client,
                                      env, r)
    /\ UNCHANGED <<httpRest, scans, sc_client>>

\* the link of the connected scanner client drops
ScannerConnectionLost ==
    /\ response.handler = "none"
    /\ sc_client.channel = "open"
    /\ sc_client' = Lose(sc_client)
    /\ UNCHANGED <<httpRest, shopping_lists, next_oid, broker_msgs, scans, response>>

\* the response has been sent
HttpReturn ==
    /\ response.handler # "none"
    /\ response' = [NoResponse EXCEPT !.n = response.n]
    /\ UNCHANGED <<httpRest, shopping_lists, next_oid, broker_msgs, scans,
                   sc_client>>

NextHttp ==
    \/ ScanImage \/ ManualInput \/ CreateShoppingList
    \/ ScannerConnectionLost \/ HttpReturn

SpecHttp == InitHttp /\ [][NextHttp]_vars


\* ------------------------------------------------------------------ close
\* close() of the shared client: stop_consuming, then under the lock
\* `if self.channel: self.channel.close()`, `if self.connection:
\* self.connection.close()` and both attributes set to None, all in one try
\* block whose except logs.  close() on a channel or connection that is
\* already closed raises in pika, and what follows in the block is skipped.
sh_close(c) ==
    IF c.channel = "closed" THEN c
    ELSE IF c.connection = "closed"
    THEN [c EXCEPT !.channel = IF @ = "open" THEN "closed" ELSE @]
    ELSE [c EXCEPT !.connection = "None", !.channel = "None"]

\* close() of the scanner and shopping-list clients: `if self.connection
\* and not self.connection.is_closed: await self.connection.close()`; the
\* connection takes its channel with it
aio_close(c) ==
    IF c.connection = "open"
    THEN [c EXCEPT !.connection = "closed",
                   !.channel = IF @ = "open" THEN "closed" ELSE @]
    ELSE c

\* close() of client `client` in state c
close(client, c) ==
    CASE client = "meal_planning" -> mp_close(c)
      [] client = "shared" -> sh_close(c)
      [] OTHER -> aio_close(c)

ClientNames == {"meal_planning", "shared", "scanner", "shopping_list"}

Client(client) ==
    CASE client = "meal_planning" -> mp_client
      [] client = "shared" -> sh_client
      [] client = "scanner" -> sc_client
      [] client = "shopping_list" -> sl_client

Connected(c) == [c EXCEPT !.connection = "open", !.channel = "open"]

\* Each client is as its service's startup left it: never connected, or
\* connected.
InitClose ==
    /\ recipe_suggestions = <<>>
    /\ shopping_lists = <<>>
    /\ next_oid = 1
    /\ broker_msgs = <<>>
    /\ broker_exchanges = ExchangesOf(AllDeclarations)
    /\ mp_client \in {NewClient, Connected(NewClient)}
    /\ handled = 0
    /\ last = NoRun
    /\ sh_client \in {ShClient(3, 5, "meal_plans"),
                      Connected(ShClient(3, 5, "meal_plans"))}
    /\ sc_client \in {NewClient, Connected(NewClient)}
    /\ sl_client \in {SlClient, Connected(SlClient)}
    /\ calls_made = 0
    /\ call = NoCall
    /\ consumer = NoConsumer(TRUE)
    /\ detected_queue = EmptyQueue
    /\ dispatch = NoDispatch
    /\ broker_queues = QueuesOf(AllDeclarations)
    /\ broker_bindings = BindingsOf(AllDeclarations)
    /\ services = AllServing
    /\ setup_call = NoSetup
    /\ scans = <<>>
    /\ response = NoResponse
    /\ shared = NoShared

closeRest == <<pipelineVars, broker_msgs, broker_exchanges, consumerVars,
               topologyVars, scans, response, shared>>

SetClient(client, c) ==
    /\ mp_client' = IF client = "meal_planning" THEN c ELSE mp_client
    /\ sh_client' = IF client = "shared" THEN c ELSE sh_client
    /\ sc_client' = IF client = "scanner" THEN c ELSE sc_client
    /\ sl_client' = IF client = "shopping_list" THEN c ELSE sl_client

\* a service calls close() on its client
Close ==
    /\ calls_made < MaxCalls
    /\ \E client \in ClientNames :
         /\ SetClient(client, close(client, Client(client)))
         /\ call' = Returned("close", client, Client(client), "none",
                             NoCall.message, <<>>, "ok",
                             [ret |-> "None", log |-> <<>>], <<>>)
    /\ calls_made' = calls_made + 1
    /\ UNCHANGED closeRest

\* the broker closes the channel of a connected client after a channel
\* error (such as a publish to an exchange that was never declared); the
\* connection stays open
ChannelClosedByBroker ==
    /\ call.op = "none"
    /\ \E client \in ClientNames :
         /\ Client(client).channel = "open"
         /\ SetClient(client, [Client(client) EXCEPT !.channel = "closed"])
    /\ UNCHANGED <<closeRest, calls_made, call>>

NextClose == Close \/ ChannelClosedByBroker \/ ConnectionLost \/ CallReturn

SpecClose == InitClose /\ [][NextClose]_vars


\* ------------------------------------------------- shared client and lock
\* The shared client's self._lock (a threading.Lock) and the three paths
\* that take it.  The client is connected throughout.
InitShared ==
    /\ recipe_suggestions = <<>>
    /\ shopping_lists = <<>>
    /\ next_oid = 1
    /\ broker_msgs = <<>>
    /\ broker_exchanges = ExchangesOf(AllDeclarations)
    /\ mp_client = NewClient
    /\ handled = 0
    /\ last = NoRun
    /\ sh_client = Connected(ShClient(3, 5, "meal_plans"))
    /\ sc_client = NewClient
    /\ sl_client = SlClient
    /\ calls_made = 0
    /\ call = NoCall
    /\ consumer = NoConsumer(TRUE)
    /\ detected_queue = EmptyQueue
    /\ dispatch = NoDispatch
    /\ broker_queues = QueuesOf(AllDeclarations)
    /\ broker_bindings = BindingsOf(AllDeclarations)
    /\ services = AllServing
    /\ setup_call = NoSetup
    /\ scans = <<>>
    /\ response = NoResponse
    /\ shared = NoShared

sharedRest == <<pipelineVars, clientVars, consumerVars, topologyVars,
                scans, response, broker_exchanges, mp_client>>

\* start_consuming(callback): under the lock, create a Thread whose target
\* is self._consume_messages and start it.  The target is a coroutine
\* function: the thread's call of it builds a coroutine object that nobody
\* awaits, and the thread ends without having run a line of the loop.
SharedStartConsuming ==
    /\ shared.thread = "none"
    /\ shared.lock = "free"
    /\ shared' = [shared EXCEPT !.thread = "ended"]
    /\ UNCHANGED <<sharedRest, broker_msgs>>

\* a caller awaits _consume_messages(callback): the only way its loop runs
ConsumeMessagesAwaited ==
    /\ shared.loop = "none"
    /\ shared' = [shared EXCEPT !.loop = "outer"]
    /\ UNCHANGED <<sharedRest, broker_msgs>>

\* `while not self._stop_event.is_set():` and `with self._lock:` followed
\* by basic_qos and basic_consume
ConsumerEnter ==
    /\ shared.loop = "outer"
    /\ \/ /\ shared.stop_event
          /\ shared' = [shared EXCEPT !.loop = "done"]
       \/ /\ ~shared.stop_event
          /\ shared.lock = "free"
          /\ shared' = [shared EXCEPT !.lock = "consumer", !.loop = "polling"]
    /\ UNCHANGED <<sharedRest, broker_msgs>>

\* the inner `while not self._stop_event.is_set():` with
\* process_data_events(time_limit=1), all inside the with block: the lock
\* is given back only when the stop event is seen or the poll raises
ConsumerPoll ==
    /\ shared.loop = "polling"
    /\ \/ /\ shared.stop_event
          /\ shared' = [shared EXCEPT !.lock = "free", !.loop = "outer"]
       \/ /\ ~shared.stop_event
          /\ \E outcome \in {"returned", "raised"} :
               shared' = IF outcome = "returned"
                         THEN [shared EXCEPT !.polls = 1 - @]
                         ELSE [shared EXCEPT !.lock = "free",
                                             !.loop = "outer"]
    /\ UNCHANGED <<sharedRest, broker_msgs>>

\* publish_message(message) is called and reaches `with self._lock:`
SharedPublishBegin ==
    /\ shared.publish = "idle"
    /\ shared.published < MaxMessages
    /\ shared' = [shared EXCEPT !.publish = "waiting"]
    /\ UNCHANGED <<sharedRest, broker_msgs>>

\* the publisher gets the lock, publishes and leaves the with block
SharedPublishAcquire ==
    /\ shared.publish = "waiting"
    /\ shared.lock = "free"
    /\ \E link \in LinkOutcomes :
       \E r \in {sh_publish_message(sh_client, broker_exchanges,
                                    [scan_id |-> "s1", user_id |-> "u1"],
                                    <<>>, link)} :
         /\ broker_msgs' = broker_msgs \o r.sent
         /\ shared' = [shared EXCEPT !.publish = "done",
                                     !.published = @ + 1]
    /\ UNCHANGED sharedRest

SharedPublishReturn ==
    /\ shared.publish = "done"
    /\ shared' = [shared EXCEPT !.publish = "idle"]
    /\ UNCHANGED <<sharedRest, broker_msgs>>

\* stop_consuming(): set the stop event, join the threads it started (they
\* have ended), clear the thread table and clear the stop event again
SharedStopSet ==
    /\ ~shared.stopping
    /\ shared.stops < MaxStops
    /\ shared' = [shared EXCEPT !.stop_event = TRUE, !.stopping = TRUE]
    /\ UNCHANGED <<sharedRest, broker_msgs>>

SharedStopClear ==
    /\ shared.stopping
    /\ shared' = [shared EXCEPT !.stop_event = FALSE, !.stopping = FALSE,
                                !.stops = @ + 1,
                                !.thread = "none"]
    /\ UNCHANGED <<sharedRest, broker_msgs>>

NextShared ==
    \/ SharedStartConsuming \/ ConsumeMessagesAwaited
    \/ ConsumerEnter \/ ConsumerPoll
    \/ SharedPublishBegin \/ SharedPublishAcquire \/ SharedPublishReturn
    \/ SharedStopSet \/ SharedStopClear

\* every thread that can take a step is scheduled; whether anybody calls
\* stop_consuming, publish_message or start_consuming is up to the callers
SpecShared ==
    /\ InitShared
    /\ [][NextShared]_vars
    /\ WF_vars(ConsumerEnter)
    /\ WF_vars(ConsumerPoll)
    /\ WF_vars(SharedPublishAcquire)
    /\ WF_vars(SharedPublishReturn)
    /\ WF_vars(SharedStopClear)

\* ------------------------------------------------------------------ claims
\* the event's field k is present and neither null nor empty
HasField(body, k) ==
    /\ body.wire = "json_dict"
    /\ k \in DOMAIN body.val
    /\ body.val[k] \notin {"None", ""}

\* the names an event's ingredients list carries, in order
NamedPositions(l) ==
    {i \in 1..Len(l) : l[i].isdict /\ "name" \in DOMAIN l[i]
                         /\ l[i].name \notin {"None", ""}}

IngredientsOf(body) ==
    IF body.wire = "json_dict" /\ "ingredients" \in DOMAIN body.val
    THEN body.val.ingredients ELSE <<>>

SuggestionsFor(sc, u) ==
    {i \in 1..Len(recipe_suggestions) :
        recipe_suggestions[i].scan_id = sc /\ recipe_suggestions[i].user_id = u}

\* C1: however often an ingredient.detected event with the same scan_id and
\* user_id is delivered, recipe_suggestions holds at most one document for
\* that (scan_id, user_id).
C1_AtMostOneSuggestionPerScan ==
    \A sc \in ScanIds, u \in UserIds : Cardinality(SuggestionsFor(sc, u)) <= 1

\* C2: persist first, notify second.  Every recipe.suggestion event on the
\* broker names a suggestion document that is in recipe_suggestions with the
\* same scan_id, every shopping_list.created event names a stored shopping
\* list, and an invocation whose insert failed published nothing.
C2_PersistBeforeNotify ==
    /\ \A i \in 1..Len(broker_msgs) :
         broker_msgs[i].routing_key = "recipe.suggestion" =>
           \E j \in 1..Len(recipe_suggestions) :
              /\ StrOid(recipe_suggestions[j]._id)
                   = broker_msgs[i].body.val.suggestion_id
              /\ recipe_suggestions[j].scan_id = broker_msgs[i].body.val.scan_id
    /\ \A i \in 1..Len(broker_msgs) :
         broker_msgs[i].routing_key = "shopping_list.created" =>
           \E j \in 1..Len(shopping_lists) :
              shopping_lists[j].id = broker_msgs[i].body.val.shopping_list_id
    /\ (last.insert_attempted /\ ~last.inserted) =>
           (last.sent = <<>> /\ last.pub_ret = "none")

C2_Witness ==
    /\ last.handler = "ingredient.detected"
    /\ last.inserted
    /\ last.pub_ret = "True"
    /\ Len(broker_msgs) >= 1
    /\ broker_msgs[Len(broker_msgs)].routing_key = "recipe.suggestion"

\* a delivery that is not JSON or lacks a required correlation field
Malformed(handler, body) ==
    \/ body.wire # "json_dict"
    \/ handler = "ingredient.detected"
         /\ (~HasField(body, "scan_id") \/ ~HasField(body, "user_id"))
    \/ handler = "meal_plan.created"
         /\ (~HasField(body, "meal_plan_id") \/ ~HasField(body, "user_id"))

\* C3: a step that handles a malformed delivery changes no collection and
\* publishes nothing, makes no insert and no publish call, and no exception
\* leaves the callback (the consumer loop keeps running).
C3_MalformedDropped ==
    [][(last'.handler # "none" /\ Malformed(last'.handler, last'.body)) =>
          /\ recipe_suggestions' = recipe_suggestions
          /\ shopping_lists' = shopping_lists
          /\ broker_msgs' = broker_msgs
          /\ ~last'.insert_attempted
          /\ last'.pub_ret = "none"
          /\ ~last'.escaped]_vars

C3_Witness ==
    /\ last.handler = "ingredient.detected"
    /\ last.body.wire = "json_dict"
    /\ ~HasField(last.body, "user_id")
    /\ HasField(last.body, "scan_id")
    /\ HasField(last.body, "token")
    /\ NamedPositions(IngredientsOf(last.body)) # {}
    /\ ~last.insert_attempted
    /\ Len(recipe_suggestions) >= 1

\* the recipes the lookup returns for the invocation's inputs: "none" when
\* the recipe service answers with an error
LookupAnswer(env) ==
    IF env.resp1.status = 200 THEN env.resp1
    ELSE IF env.resp1.status = 401 THEN env.resp2
    ELSE env.resp1

\* C4: an ingredient.detected event with scan_id, user_id and a non-empty
\* list of named ingredients, nothing else being required, for which the
\* lookup returns n >= 1 recipes (store and broker accepting), has its
\* suggestion persisted and recipe.suggestion published on meal_plans with
\* the same scan_id, the document's id as suggestion_id and recipe_count n.
C4_SuggestionPublished ==
    ( /\ last.handler = "ingredient.detected"
      /\ HasField(last.body, "scan_id")
      /\ HasField(last.body, "user_id")
      /\ IngredientsOf(last.body) # <<>>
      /\ NamedPositions(IngredientsOf(last.body))
            = 1..Len(IngredientsOf(last.body))
      /\ last.env.resp1.status = 200
      /\ Len(last.env.resp1.recipes) >= 1
      /\ last.env.db_ok
      /\ last.env.link = "ok" )
    =>
    ( /\ last.inserted
      /\ Len(recipe_suggestions) >= 1
      /\ recipe_suggestions[Len(recipe_suggestions)]._id = last.inserted_id
      /\ recipe_suggestions[Len(recipe_suggestions)].scan_id
            = last.body.val.scan_id
      /\ Len(last.sent) = 1
      /\ last.sent[1].exchange = "meal_plans"
      /\ last.sent[1].routing_key = "recipe.suggestion"
      /\ last.sent[1].body.val.scan_id = last.body.val.scan_id
      /\ last.sent[1].body.val.suggestion_id = StrOid(last.inserted_id)
      /\ last.sent[1].body.val.suggestion_id # ""
      /\ last.sent[1].body.val.recipe_count = Len(last.env.resp1.recipes) )

\* C4 holds of the events that also carry a token
C4_WithToken == HasField(last.body, "token") => C4_SuggestionPublished

\* C5: the ingredient list of every lookup the handler makes contains each
\* name at most once.
C5_LookupNamesDistinct ==
    \A k \in 1..Len(last.calls) :
       \A i, j \in 1..Len(last.calls[k].ingredients) :
          last.calls[k].ingredients[i] = last.calls[k].ingredients[j] => i = j

\* C6: a step that handles an ingredient.detected event whose ingredients
\* list is absent, empty or without any ingredient name makes no lookup,
\* changes no collection and publishes nothing.
C6_EmptyIngredientsDropped ==
    [][( /\ last'.handler = "ingredient.detected"
         /\ last'.body.wire = "json_dict"
         /\ NamedPositions(IngredientsOf(last'.body)) = {} )
       =>
       ( /\ last'.calls = <<>>
         /\ recipe_suggestions' = recipe_suggestions
         /\ broker_msgs' = broker_msgs
         /\ ~last'.insert_attempted
         /\ last'.pub_ret = "none" )]_vars

C6_Witness ==
    /\ last.handler = "ingredient.detected"
    /\ HasField(last.body, "scan_id")
    /\ HasField(last.body, "user_id")
    /\ HasField(last.body, "token")
    /\ "ingredients" \in DOMAIN last.body.val
    /\ Len(last.body.val.ingredients) = 1
    /\ NamedPositions(last.body.val.ingredients) = {}
    /\ last.calls = <<>>

\* C7: when the lookup made for a valid event returns zero recipes, the
\* handler inserts a suggestion for that scan_id with suggested_recipes = []
\* and an error marker (the document is stored whenever the store accepts
\* the insert) and makes no publish call.
C7_EmptyResultStored ==
    ( /\ last.handler = "ingredient.detected"
      /\ last.calls # <<>>
      /\ LookupAnswer(last.env).status = 200
      /\ LookupAnswer(last.env).recipes = <<>> )
    =>
    ( /\ last.insert_attempted
      /\ last.inserted = last.env.db_ok
      /\ last.env.db_ok =>
           /\ Len(recipe_suggestions) >= 1
           /\ recipe_suggestions[Len(recipe_suggestions)]._id = last.inserted_id
           /\ recipe_suggestions[Len(recipe_suggestions)].scan_id
                 = last.body.val.scan_id
           /\ recipe_suggestions[Len(recipe_suggestions)].user_id
                 = last.body.val.user_id
           /\ recipe_suggestions[Len(recipe_suggestions)].suggested_recipes = <<>>
           /\ "error" \in DOMAIN recipe_suggestions[Len(recipe_suggestions)]
           /\ ~Falsy(recipe_suggestions[Len(recipe_suggestions)].error)
      /\ last.sent = <<>>
      /\ last.pub_ret = "none" )

C7_Witness ==
    /\ last.handler = "ingredient.detected"
    /\ last.calls # <<>>
    /\ last.env.resp1.status = 200
    /\ last.env.resp1.recipes = <<>>
    /\ last.inserted
    /\ recipe_suggestions[Len(recipe_suggestions)].suggested_recipes = <<>>

\* the events of one kind in a connect() log, in order
RECURSIVE CountEv(_, _)
CountEv(log, ev) ==
    IF log = <<>> THEN 0
    ELSE (IF log[1].ev = ev THEN 1 ELSE 0) + CountEv(Tail(log), ev)

\* every attempt of the call met an unreachable broker
BrokerUnreachable(k) == \A i \in 1..Len(k.outs) : k.outs[i] = "conn_fail"

\* C8: the shared client's connect(), configured with max_retries = N >= 1
\* and facing a broker that stays unreachable, makes exactly N connection
\* attempts, sleeps retry_delay between each two consecutive attempts (and
\* nowhere else), and returns False.
C8_ExactlyNAttempts ==
    ( /\ call.op = "connect"
      /\ call.client = "shared"
      /\ call.before.max_retries >= 1
      /\ BrokerUnreachable(call) )
    =>
    ( /\ call.ret = "False"
      /\ CountEv(call.log, "attempt") = call.before.max_retries
      /\ Len(call.log) = 2 * call.before.max_retries - 1
      /\ \A i \in 1..Len(call.log) :
           IF i % 2 = 1
           THEN call.log[i].ev = "attempt"
           ELSE /\ call.log[i].ev = "sleep"
                /\ call.log[i].secs = call.before.retry_delay )

C8_Witness ==
    /\ call.op = "connect"
    /\ call.client = "shared"
    /\ call.before.max_retries = MaxRetries
    /\ BrokerUnreachable(call)
    /\ CountEv(call.log, "attempt") = MaxRetries
    /\ CountEv(call.log, "sleep") = MaxRetries - 1
    /\ call.ret = "False"

\* the attempt of the call that opened a connection and a channel, if any
OpenedByCall(k) ==
    \E i \in 1..CountEv(k.log, "attempt") : k.outs[i] = "ok"

\* C9: every connect() that returns, for every configuration and broker
\* state, returns a boolean: True exactly when the call opened a connection
\* and a channel, False otherwise.
C9_ConnectReturnsBoolean ==
    (call.op = "connect" /\ call.ret # "blocked")
    =>
    ( /\ call.ret \in {"True", "False"}
      /\ (call.ret = "True") <=> OpenedByCall(call) )

\* what makes a publish_message call fail: no channel and the connect it
\* makes fails, a message json cannot encode, a missing exchange, a closed
\* channel, a broker or link error
PublishFailure(k, exchanges) ==
    \/ /\ k.before.channel = "None"
       /\ \A i \in 1..Len(k.outs) : k.outs[i] # "ok"
    \/ DOMAIN k.message \cap NonJsonFields # {}
    \/ k.exchange \notin exchanges
    \/ k.before.channel = "closed"
    \/ k.link = "error"

BrokerReachable(k, exchanges) ==
    /\ \A i \in 1..Len(k.outs) : k.outs[i] = "ok"
    /\ k.link = "ok"
    /\ k.exchange \in exchanges
    /\ DOMAIN k.message \cap NonJsonFields = {}

\* C11: whenever the meal-planning client is disconnected (never
\* connected, closed, or its connection lost), the next publish_message
\* connects first and, the broker being reachable, the publish succeeds.
C11_LazyReconnect ==
    ( /\ call.op = "publish"
      /\ call.client = "meal_planning"
      /\ call.before.channel # "open"
      /\ BrokerReachable(call, broker_exchanges) )
    => call.ret = "True"

\* C12: once stop_consuming() has returned, the consumer is never in the
\* consuming state again and the callback is passed no further message,
\* whatever the interleaving of stop_consuming with the start of
\* consume_thread and with its reconnect.
C12_StoppedStaysStopped ==
    dispatch.at_stop >= 0
    => ( /\ ~consumer.consuming
         /\ Len(dispatch.passed) = dispatch.at_stop )

\* the attributes of the client and its subscription on the broker
ClientState(c) == <<c.channel, c.subscribed, c.consuming, c.thread>>

\* C13: stop_consuming() returns within the join timeout from every state
\* of the consumer, and a second call made right after the first has
\* returned changes nothing.
C13_StopBoundedAndIdempotent ==
    [][ /\ consumer'.waited <= JoinTimeout
        /\ (consumer.fresh /\ consumer'.stops = consumer.stops + 1)
             => ClientState(consumer') = ClientState(consumer)
      ]_vars

\* C14: after a connection error while consuming, once the client has
\* reconnected and was not stopped, the consumer is subscribed to its
\* queue again.
C14_ResubscribedAfterReconnect ==
    ( /\ dispatch.lost
      /\ ~dispatch.raised
      /\ consumer.stops = 0
      /\ consumer.thread = "loop"
      /\ consumer.channel = "open" )
    => consumer.subscribed

\* C15: a consumer started with auto_ack = False acknowledges every message
\* whose callback returned, and only those.
C15_AckAfterHandler ==
    ~consumer.auto_ack
    => ( /\ \A i \in 1..Len(dispatch.passed) :
              dispatch.passed[i].outcome = "returned"
                 => dispatch.passed[i].msg \in detected_queue.acked
         /\ \A m \in detected_queue.acked :
              \E i \in 1..Len(dispatch.passed) :
                 /\ dispatch.passed[i].msg = m
                 /\ dispatch.passed[i].outcome = "returned" )

\* C16: after the callback raised on one message the dispatch loop is still
\* running and still subscribed (the client not stopped, the connection
\* not lost).
C16_LoopSurvivesHandlerError ==
    ( /\ dispatch.raised
      /\ ~dispatch.lost
      /\ consumer.stops = 0 )
    => ( /\ consumer.thread \in {"loop", "reconnect"}
         /\ consumer.subscribed )

\* the client a setup runs on
SetupClient(service) ==
    IF service = "shared" THEN sh_client ELSE ClientOf(service)

C18_ServingHasTopology ==
    /\ \A s \in ServiceNames :
         services[s] = "serving"
         => ( /\ ExchangesOf(SetupOf(s)) \subseteq broker_exchanges
              /\ QueuesOf(SetupOf(s)) \subseteq broker_queues
              /\ BindingsOf(SetupOf(s)) \subseteq broker_bindings )
    /\ (setup_call.by = "startup" /\ setup_call.raised)
         => services[setup_call.service] = "aborted"

\* the queues a published message is routed to.  No binding of the
\* services has a wildcard, so a topic exchange matches a routing key by
\* equality.
Route(m, bindings) ==
    {b.queue : b \in {x \in bindings : /\ x.exchange = m.exchange
                                       /\ x.routing_key = m.routing_key}}

\* the bound queue of the topology table for a routing key
TableQueue(routing_key) ==
    CASE routing_key = "ingredient.detected" -> {"detected_ingredients"}
      [] routing_key = "meal_plan.created" -> {"meal_plans_created"}
      [] routing_key = "shopping_list.created" -> {"shopping_lists_created"}
      [] OTHER -> {}

C20_ListReferencesPlan ==
    ( /\ last.handler = "meal_plan.created"
      /\ last.calls # <<>> )
    => ( /\ \A i \in 1..Len(last.calls) :
              last.calls[i].meal_plan_id = last.body.val.meal_plan_id
         /\ last.inserted
              => /\ shopping_lists[Len(shopping_lists)].meal_plan_id
                       = last.body.val.meal_plan_id
                 /\ shopping_lists[Len(shopping_lists)].user_id
                       = last.body.val.user_id )

\* C21: a meal_plan.created event with meal_plan_id and user_id whose meal
\* plan yields at least one ingredient makes the consumer insert a
\* shopping-list document and send a shopping_list.created event for that
\* document to exchange shopping_lists.
C21_ShoppingListCreatedAndAnnounced ==
    ( /\ last.handler = "meal_plan.created"
      /\ HasField(last.body, "meal_plan_id")
      /\ HasField(last.body, "user_id")
      /\ last.plan.status = 200
      /\ last.plan.items # <<>>
      /\ last.env.db_ok )
    => ( /\ last.inserted
         /\ \E i \in 1..Len(last.sent) :
              /\ last.sent[i].exchange = "shopping_lists"
              /\ last.sent[i].routing_key = "shopping_list.created"
              /\ json_loads(last.sent[i].body).val.shopping_list_id
                    = shopping_lists[Len(shopping_lists)].id )

\* C22: a request handler that stores a document and then publishes
\* (scan_image, manual_input, create_shopping_list) answers with a success
\* status once its insert has succeeded, whatever the broker connect and
\* the publish do.
C22_ResponseFollowsInsert ==
    (response.handler # "none" /\ response.inserted)
    => response.status \in {200, 201}

\* C23: a service that started with its database up and the broker out of
\* reach (its startup ran no queue setup) has completed its startup and
\* serves, and its client has no channel, so that the next publish
\* connects.
C23_DegradedStartup ==
    \A sv \in ServiceNames :
       ( /\ setup_call.service = sv
         /\ setup_call.by = "startup"
         /\ ~setup_call.ran
         /\ services[sv] # "aborted" )
       => ( /\ services[sv] = "serving"
            /\ ClientOf(sv).channel = "None" )

Disconnected(c) == c.connection # "open" /\ c.channel # "open"

\* C24: a close() call, on a client never connected, connected or already
\* closed, does not raise and leaves the client disconnected, and a close()
\* that follows a close() of the same client changes nothing.
C24_CloseIdempotent ==
    [][ ( /\ calls_made' # calls_made
          /\ call'.op = "close" )
        =>
        ( /\ call'.ret # "raised"
          /\ Disconnected(close(call'.client, call'.before))
          /\ (call.op = "close" /\ call.client = call'.client)
               => close(call'.client, call'.before) = call'.before )
      ]_vars

\* the lower-cased, trimmed name of an ingredient of a recipe
NameKey(x) ==
    LET n == IF x.isdict THEN x.name ELSE x.str
    IN  IF n = "Egg" THEN "egg" ELSE n

\* C25: the ingredient list built from a meal plan's recipes has no two
\* items with the same lower-cased trimmed name, and every such name
\* occurring in the recipes is the name of one of its items.
C25_IngredientsDeduplicated ==
    ( /\ last.handler = "meal_plan.created"
      /\ last.calls # <<>>
      /\ last.plan.status = 200 )
    => LET g == get_meal_plan_ingredients(last.calls[1].meal_plan_id,
                                          last.calls[1].token, last.plan)
       IN  /\ ~g.raised
           /\ \A x, y \in g.ingredients : NameKey(x) = NameKey(y) => x = y
           /\ \A i \in 1..Len(last.plan.items) :
                \E x \in g.ingredients :
                   NameKey(x) = NameKey(last.plan.items[i])

\* C26: a scan whose document the scanner service stored, through /scan or
\* /manual-input, with the broker reachable, has sent one
\* ingredient.detected event to exchange ingredients that carries the
\* scan's scan_id, user_id and ingredients; a client that was not
\* connected has connected instead of skipping the publish.
C26_ScanPublished ==
    ( /\ response.handler \in {"scan_image", "manual_input"}
      /\ response.inserted
      /\ response.env.conn = "ok"
      /\ response.env.link = "ok" )
    => ( /\ ~response.skipped
         /\ Len(response.sent) = 1
         /\ response.sent[1].exchange = "ingredients"
         /\ response.sent[1].routing_key = "ingredient.detected"
         /\ LET m == json_loads(response.sent[1].body).val
            IN  /\ m.scan_id = response.doc.scan_id
                /\ m.user_id = response.doc.user_id
                /\ m.ingredients = response.doc.ingredients )

\* consume_thread is inside its loop: in process_data_events, in a callback
\* run by it, or in the connect() of its except branch
ThreadOnChannel(c) == c.thread \in {"loop", "reconnect"}

\* C27: no two threads make broker-client calls on the meal-planning
\* client's channel at the same time: whenever stop_consuming makes its
\* channel.stop_consuming() call, consume_thread is not inside its loop.
C27_ChannelCallsExclusive ==
    [][ ( /\ consumer'.stops = consumer.stops + 1
          /\ consumer.channel # "None" )
        => ~ThreadOnChannel(consumer)
      ]_vars

\* the connections the attempts of a call opened (an attempt whose
\* channel() failed has opened one too)
OpenedConnections(k) ==
    Cardinality({i \in 1..CountEv(k.log, "attempt") :
                    k.outs[i] \in {"ok", "chan_fail"}})

\* C28: a client instance has at most one open connection: a connect(),
\* called explicitly or by a lazy reconnect, opens no connection while one
\* that the instance opened before is still open.
C28_OneConnectionPerClient ==
    call.op \in {"connect", "publish"}
    => OpenedConnections(call)
         + (IF call.before.connection = "open" THEN 1 ELSE 0) <= 1

\* C29: after a service's queue setup has returned without raising, every
\* exchange, queue and binding it names is on the broker, also when the
\* client had no channel and the setup had to connect first.
C29_QuietSetupDeclared ==
    ( /\ setup_call.by = "call"
      /\ setup_call.service \in ServiceNames
      /\ ~setup_call.raised )
    => ( /\ ExchangesOf(SetupOf(setup_call.service)) \subseteq broker_exchanges
         /\ QueuesOf(SetupOf(setup_call.service)) \subseteq broker_queues
         /\ BindingsOf(SetupOf(setup_call.service))
               \subseteq broker_bindings )

====
